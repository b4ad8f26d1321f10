------------------------------ MODULE MCTimers ------------------------------
EXTENDS Timers

\* The tag the LLM writes with aplicar_tag is the one of the final delete.
FarewellTag == {Final}

OneChase == <<1>>

\* The last step comes before the one listed before it, and shares the first one's tag.
Unordered == <<1, 2, 1>>
=============================================================================
