---------------------------- MODULE TokenService ----------------------------
(***************************************************************************)
(* What a replica scheduler promises its users, whatever its policy and    *)
(* its memory: requests are served with at most Capacity of them admitted  *)
(* at a time; an admitted request is run again and again, may be thrown    *)
(* out between two runs, and produces its output one token at a time, none *)
(* of them lost or produced twice; in the end every request is served.     *)
(***************************************************************************)
EXTENDS Integers, FiniteSets

CONSTANTS Requests, Capacity

VARIABLES
    wanted,    \* output tokens each request asks for
    phase,     \* where each request is
    emitted    \* output tokens it has produced

serviceVars == <<wanted, phase, emitted>>

In(p) == {r \in Requests : phase[r] = p}
Admitted == In("running") \cup In("paused")

ServiceInit ==
    /\ wanted \in [Requests -> Nat \ {0}]
    /\ phase = [r \in Requests |-> "coming"]
    /\ emitted = [r \in Requests |-> 0]

Submit(S) ==
    /\ S \subseteq In("coming")
    /\ phase' = [r \in Requests |-> IF r \in S THEN "waiting" ELSE phase[r]]
    /\ UNCHANGED <<wanted, emitted>>

Start(r) ==
    /\ \/ phase[r] = "paused"
       \/ phase[r] = "waiting" /\ Cardinality(Admitted) < Capacity
    /\ phase' = [phase EXCEPT ![r] = "running"]
    /\ UNCHANGED <<wanted, emitted>>

Emit(r) ==
    /\ phase[r] = "running"
    /\ emitted' = [emitted EXCEPT ![r] = @ + 1]
    /\ phase' = [phase EXCEPT
                    ![r] = IF emitted[r] + 1 = wanted[r] THEN "done" ELSE "paused"]
    /\ UNCHANGED wanted

ThrowOut(r) ==
    /\ phase[r] = "paused"
    /\ phase' = [phase EXCEPT ![r] = "waiting"]
    /\ UNCHANGED <<wanted, emitted>>

ServiceNext ==
    \/ \E S \in SUBSET Requests : Submit(S)
    \/ \E r \in Requests : Start(r) \/ Emit(r) \/ ThrowOut(r)

ServiceSafety == ServiceInit /\ [][ServiceNext]_serviceVars

Served == \A r \in Requests : <>(phase[r] = "done")

ServiceSpec == ServiceSafety /\ Served
=============================================================================
