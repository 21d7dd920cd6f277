-------------------------- MODULE SchemaRegistration --------------------------
(***************************************************************************)
(* register_warehouse_schemas (app/avro.py), with which every WMS process  *)
(* starts: set the subject to BACKWARD, register v1, then v2, from the     *)
(* beginning again after any failure, until the retries are used up.  An   *)
(* answer of the Schema Registry may be lost, and a request that timed out *)
(* may still be carried out.                                               *)
(***************************************************************************)
EXTENDS Integers, Sequences

CONSTANTS
    Processes,    \* WMS processes
    Retries,      \* the attempts of a start: 60
    MaxRestarts   \* bound on the restarts

ASSUME RegistrationAssumption == Retries \in Nat \ {0} /\ MaxRestarts \in Nat

VARIABLES
    step,       \* step[w]: the request w makes next, "serving" or "failed"
    attempt,    \* attempt[w]: the attempt it is in
    restarts,
    compat,     \* compatibility level of the subject, "default" if never set
    versions,   \* its versions: the schemas in the order of their registration
    delayed     \* requests that timed out and may still be carried out

regVars == <<step, attempt, restarts, compat, versions, delayed>>

Operations == {"config", "v1", "v2"}

Init ==
    /\ step = [w \in Processes |-> "config"]
    /\ attempt = [w \in Processes |-> 1]
    /\ restarts = 0
    /\ compat = "default"
    /\ versions = << >>
    /\ delayed = {}

-----------------------------------------------------------------------------
(* The registry. Registering a schema that is there gives its version; v1  *)
(* and v2 are BACKWARD compatible with each other.                         *)

Registered(v) == \E n \in 1 .. Len(versions) : versions[n] = v

CarryOut(op) ==
    /\ compat' = IF op = "config" THEN "BACKWARD" ELSE compat
    /\ versions' = IF op = "config" \/ Registered(op) THEN versions
                                                      ELSE Append(versions, op)

\* A request that the client gave up.
Late(op) ==
    /\ op \in delayed
    /\ CarryOut(op)
    /\ delayed' = delayed \ {op}
    /\ UNCHANGED <<step, attempt, restarts>>

-----------------------------------------------------------------------------
Starting(w) == step[w] \in Operations

Following(op) == CASE op = "config" -> "v1"
                   [] op = "v1" -> "v2"
                   [] op = "v2" -> "serving"

\* raise_for_status finds nothing to raise.
Answered(w) ==
    /\ Starting(w)
    /\ CarryOut(step[w])
    /\ step' = [step EXCEPT ![w] = Following(@)]
    /\ UNCHANGED <<attempt, restarts, delayed>>

\* mutant: a failed request is not repeated
GoOn(w) ==
    /\ step' = [step EXCEPT ![w] = Following(@)]
    /\ UNCHANGED attempt

\* mutant: the attempts are not counted
TryAgainForEver(w) ==
    /\ step' = [step EXCEPT ![w] = "config"]
    /\ UNCHANGED attempt

\* After the last attempt startup raises RuntimeError and the process ends.
TryAgain(w) ==
    IF attempt[w] < Retries
      THEN /\ attempt' = [attempt EXCEPT ![w] = @ + 1]
           /\ step' = [step EXCEPT ![w] = "config"]
      ELSE /\ step' = [step EXCEPT ![w] = "failed"]
           /\ UNCHANGED attempt

\* mutant: raise_for_status forgotten
FailsUnnoticed(w) ==
    /\ Starting(w)
    /\ step' = [step EXCEPT ![w] = Following(@)]
    /\ UNCHANGED <<attempt, restarts, compat, versions, delayed>>

\* An error status, or no connection: nothing was done.
Fails(w) ==
    /\ Starting(w)
    /\ TryAgain(w)
    /\ UNCHANGED <<restarts, compat, versions, delayed>>

\* The request was carried out and its answer is lost.
AnswerLost(w) ==
    /\ Starting(w)
    /\ CarryOut(step[w])
    /\ TryAgain(w)
    /\ UNCHANGED <<restarts, delayed>>

TimesOut(w) ==
    /\ Starting(w)
    /\ delayed' = delayed \union {step[w]}
    /\ TryAgain(w)
    /\ UNCHANGED <<restarts, compat, versions>>

\* The process dies, wherever it is, or has failed; it is started again.
Restart(w) ==
    /\ restarts < MaxRestarts
    /\ restarts' = restarts + 1
    /\ step' = [step EXCEPT ![w] = "config"]
    /\ attempt' = [attempt EXCEPT ![w] = 1]
    /\ UNCHANGED <<compat, versions, delayed>>

-----------------------------------------------------------------------------
Register(w) == Answered(w) \/ Fails(w) \/ AnswerLost(w) \/ TimesOut(w)

Next ==
    \/ \E w \in Processes : Register(w) \/ Restart(w)
    \/ \E op \in Operations : Late(op)

Spec == Init /\ [][Next]_regVars

\* Every request ends after five seconds, and an attempt two seconds later.
FairSpec == Spec /\ \A w \in Processes : WF_regVars(Register(w))

-----------------------------------------------------------------------------
(* Properties.                                                             *)

\* The variables keep their types.
TypeOK ==
    /\ step \in [Processes -> Operations \union {"serving", "failed"}]
    /\ attempt \in [Processes -> 1 .. Retries]
    /\ restarts \in 0 .. MaxRestarts
    /\ compat \in {"default", "BACKWARD"}
    /\ versions \in Seq({"v1", "v2"})
    /\ delayed \subseteq Operations

\* The subject's version n is schema vn, and it is BACKWARD before there is any:
\* whatever was lost, delayed, repeated or started at the same time.
RegistryInOrder ==
    /\ versions \in {<< >>, <<"v1">>, <<"v1", "v2">>}
    /\ versions # << >> => compat = "BACKWARD"

\* A process that serves has both schemas for its serializers, which register none.
ServingMeansRegistered ==
    \A w \in Processes : step[w] = "serving" => Registered("v1") /\ Registered("v2")

\* Every start ends, whatever the registry does.
StartEnds == \A w \in Processes : Starting(w) ~> ~Starting(w)
=============================================================================
