----------------------------- MODULE BridgeWork -----------------------------
(***************************************************************************)
(* What the bridge promises about a work item posted to an environment:    *)
(* it is handed out at most once and starts at most one session.  It may   *)
(* be lost on the way (no promise is made that it runs), but it never      *)
(* comes back: a posted item is not posted again, a lost or ended one is   *)
(* never started.                                                          *)
(***************************************************************************)
CONSTANT Work

VARIABLE state   \* of each item

States == {"new", "waiting", "taken", "running", "ended", "lost"}

Init == state = [w \in Work |-> "new"]

Move(w, from, to) == state[w] = from /\ state' = [state EXCEPT ![w] = to]

Post(w)  == Move(w, "new", "waiting")
Take(w)  == Move(w, "waiting", "taken")
Start(w) == Move(w, "taken", "running")
End(w)   == Move(w, "running", "ended")

\* A response lost, an ack refused, a crash of either side.
Lose(S) ==
  /\ S # {} /\ \A w \in S : state[w] \in {"waiting", "taken"}
  /\ state' = [w \in Work |-> IF w \in S THEN "lost" ELSE state[w]]

Next ==
  \/ \E w \in Work : Post(w) \/ Take(w) \/ Start(w) \/ End(w)
  \/ \E S \in SUBSET Work : Lose(S)

Spec == Init /\ [][Next]_state
=============================================================================
