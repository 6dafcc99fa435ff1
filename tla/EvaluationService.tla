------------------------- MODULE EvaluationService --------------------------
(***************************************************************************)
(* What the evaluation component promises, with nothing of how: while it   *)
(* is up it gives every request that reached it at most one answer, in no  *)
(* promised order; no query ID is given again before IdSpace others were;  *)
(* a click is passed on at most once, and only after its report was        *)
(* accepted.  When it goes down, waiting requests are dropped, and it      *)
(* forgets which IDs it gave: HTTPServer.h:108 keeps them in memory, so    *)
(* this is less than what README.md:88 of the repository asks for.         *)
(***************************************************************************)
EXTENDS Naturals, Sequences

CONSTANTS Conns,      (* the requests, one to a connection                 *)
          IdSpace     (* number of query IDs                               *)

VARIABLES up,         (* the service is running                            *)
          state,      (* of a request: new, waiting, accepted, refused, dropped *)
          given,      (* the IDs given since the service came up           *)
          passed      (* the requests whose click was passed on            *)

vars == <<up, state, given, passed>>

Init == /\ up = FALSE
        /\ state = [c \in Conns |-> "new"]
        /\ given = <<>>
        /\ passed = {}

ComeUp == /\ ~up
          /\ up' = TRUE
          /\ UNCHANGED <<state, given, passed>>

Ask(c) == /\ up /\ state[c] = "new"
          /\ state' = [state EXCEPT ![c] = "waiting"]
          /\ UNCHANGED <<up, given, passed>>

(* id is fresh: it is not among the last IdSpace - 1 that were given.      *)
Fresh(id) == \A i \in DOMAIN given : given[i] = id => Len(given) + 1 - i >= IdSpace

Answer(c) == /\ up /\ state[c] = "waiting"
             /\ \E verdict \in {"accepted", "refused"} :
                  state' = [state EXCEPT ![c] = verdict]
             /\ UNCHANGED <<up, given, passed>>

GiveID(c, id) == /\ up /\ state[c] = "waiting" /\ Fresh(id)
                 /\ state' = [state EXCEPT ![c] = "accepted"]
                 /\ given' = Append(given, id)
                 /\ UNCHANGED <<up, passed>>

Pass(c) == /\ up /\ state[c] = "accepted" /\ c \notin passed
           /\ passed' = passed \cup {c}
           /\ UNCHANGED <<up, state, given>>

GoDown == /\ up
          /\ up' = FALSE /\ given' = <<>>
          /\ state' = [c \in Conns |-> IF state[c] = "waiting" THEN "dropped"
                                                              ELSE state[c]]
          /\ UNCHANGED passed

Next == \/ ComeUp \/ GoDown
        \/ \E c \in Conns : \/ Ask(c) \/ Answer(c) \/ Pass(c)
                            \/ \E id \in 0..(IdSpace - 1) : GiveID(c, id)

Spec == Init /\ [][Next]_vars
=============================================================================
