----------------------- MODULE SchemaRegistrationProofs -----------------------
(***************************************************************************)
(* For any processes, retries and restarts: the schemas are registered in  *)
(* order, and whoever serves has both.                                     *)
(***************************************************************************)
EXTENDS SchemaRegistration, SequenceTheorems, TLAPS

Orderly == {<< >>, <<"v1">>, <<"v1", "v2">>}

\* A request is made, hence can be delayed, only when what it needs is done.
Prepared(op) ==
    /\ op \in {"v1", "v2"} => compat = "BACKWARD"
    /\ op = "v2" => versions # << >>

Ready(w) ==
    /\ Starting(w) => Prepared(step[w])
    /\ step[w] = "serving" => versions = <<"v1", "v2">>

ProcessesReady == \A w \in Processes : Ready(w)
DelayedPrepared == \A op \in delayed : Prepared(op)

IInv ==
    /\ TypeOK
    /\ RegistryInOrder
    /\ ProcessesReady
    /\ DelayedPrepared

LEMMA OrderlyIsSequence == Orderly \subseteq Seq({"v1", "v2"})
  BY DEF Orderly

LEMMA SecondVersion == Append(<<"v1">>, "v2") = <<"v1", "v2">>
<1> DEFINE s == Append(<<"v1">>, "v2")
<1> DEFINE t == <<"v1", "v2">>
<1>1. <<"v1">> \in Seq({"v1", "v2"}) /\ t \in Seq({"v1", "v2"})
  OBVIOUS
<1>2. /\ s \in Seq({"v1", "v2"}) /\ Len(s) = 2
      /\ s[1] = "v1" /\ s[2] = "v2"
  BY <1>1
<1>3. Len(t) = 2 /\ t[1] = "v1" /\ t[2] = "v2"
  OBVIOUS
<1>4. \A i \in 1 .. Len(s) : s[i] = t[i]
  <2>1. 1 .. 2 = {1, 2}
    OBVIOUS
  <2> QED
    BY <1>2, <1>3, <2>1
<1> HIDE DEF s, t
<1>5. s = t
  BY <1>1, <1>2, <1>3, <1>4, SeqEqual
<1> QED
  BY <1>5 DEF s, t

\* What an orderly registry has registered.
LEMMA Contents ==
    ASSUME versions \in Orderly
    PROVE  /\ Registered("v1") <=> versions # << >>
           /\ Registered("v2") <=> versions = <<"v1", "v2">>
<1>1. CASE versions = << >>
  BY <1>1 DEF Registered
<1>2. CASE versions = <<"v1">>
  BY <1>2 DEF Registered
<1>3. CASE versions = <<"v1", "v2">>
  <2>1. Len(versions) = 2 /\ versions[1] = "v1" /\ versions[2] = "v2"
    BY <1>3
  <2>2. 1 \in 1 .. Len(versions) /\ 2 \in 1 .. Len(versions)
    BY <2>1
  <2> QED
    BY <1>3, <2>1, <2>2 DEF Registered
<1> QED
  BY <1>1, <1>2, <1>3 DEF Orderly

\* What a prepared request leaves behind: order, and nothing undone.
LEMMA CarriedOut ==
    ASSUME RegistryInOrder, NEW op \in Operations, Prepared(op), CarryOut(op)
    PROVE  /\ versions' \in Orderly
           /\ compat' \in {compat, "BACKWARD"}
           /\ compat = "BACKWARD" => compat' = "BACKWARD"
           /\ op = "config" => compat' = "BACKWARD"
           /\ versions' # << >> => compat' = "BACKWARD"
           /\ versions # << >> => versions' # << >>
           /\ op = "v1" => versions' # << >>
           /\ versions = <<"v1", "v2">> => versions' = <<"v1", "v2">>
           /\ op = "v2" => versions' = <<"v1", "v2">>
<1>1. versions \in Orderly
  BY DEF RegistryInOrder, Orderly
<1>2. CASE op = "config"
  BY <1>1, <1>2 DEF CarryOut, RegistryInOrder, Orderly
<1>3. CASE op = "v1"
  <2>1. CASE versions = << >>
    <3>1. versions' = Append(<< >>, "v1")
      BY <1>3, <2>1, <1>1, Contents DEF CarryOut
    <3>2. versions' = <<"v1">>
      BY <3>1
    <3> QED
      BY <1>3, <2>1, <3>2 DEF CarryOut, Prepared, Orderly
  <2>2. CASE versions # << >>
    BY <1>3, <2>2, <1>1, Contents DEF CarryOut, RegistryInOrder, Orderly
  <2> QED
    BY <2>1, <2>2
<1>4. CASE op = "v2"
  <2>1. CASE versions = <<"v1">>
    <3>1. versions' = Append(<<"v1">>, "v2")
      BY <1>4, <2>1, <1>1, Contents DEF CarryOut
    <3>2. versions' = <<"v1", "v2">>
      BY <3>1, SecondVersion
    <3>3. compat' = compat /\ compat = "BACKWARD"
      BY <1>4 DEF CarryOut, Prepared
    <3>4. versions # << >> /\ versions # <<"v1", "v2">>
      BY <2>1
    <3>5. versions' \in Orderly
      BY <3>2 DEF Orderly
    <3>6. versions' # << >>
      BY <3>2
    <3> QED
      BY <1>4, <3>2, <3>3, <3>5, <3>6
  <2>2. CASE versions = <<"v1", "v2">>
    BY <1>4, <2>2, <1>1, Contents DEF CarryOut, RegistryInOrder, Orderly
  <2> QED
    BY <1>1, <1>4, <2>1, <2>2 DEF Prepared, Orderly
<1> QED
  BY <1>2, <1>3, <1>4 DEF Operations

LEMMA InitHolds == Init => IInv
<1> SUFFICES ASSUME Init PROVE IInv
  OBVIOUS
<1> USE RegistrationAssumption DEF Init
<1>1. TypeOK
  BY DEF TypeOK, Operations
<1>2. RegistryInOrder /\ DelayedPrepared
  BY DEF RegistryInOrder, DelayedPrepared
<1>3. ProcessesReady
  BY DEF ProcessesReady, Ready, Starting, Prepared
<1> QED
  BY <1>1, <1>2, <1>3 DEF IInv

\* A failed request leaves its process at a step that needs nothing.
LEMMA TriedAgain ==
    ASSUME TypeOK, NEW w \in Processes, TryAgain(w)
    PROVE  /\ step' \in [Processes -> Operations \union {"serving", "failed"}]
           /\ attempt' \in [Processes -> 1 .. Retries]
           /\ step'[w] \in {"config", "failed"}
           /\ \A v \in Processes : v # w => step'[v] = step[v]
<1> USE RegistrationAssumption DEF TypeOK, Operations
<1>1. CASE attempt[w] < Retries
  <2>1. attempt[w] + 1 \in 1 .. Retries
    BY <1>1
  <2> QED
    BY <1>1, <2>1 DEF TryAgain
<1>2. CASE ~(attempt[w] < Retries)
  BY <1>2 DEF TryAgain
<1> QED
  BY <1>1, <1>2

\* The registry only gains: what was prepared and served stays so.
LEMMA Gains ==
    ASSUME IInv,
           compat = "BACKWARD" => compat' = "BACKWARD",
           versions # << >> => versions' # << >>,
           versions = <<"v1", "v2">> => versions' = <<"v1", "v2">>
    PROVE  /\ \A op \in Operations : Prepared(op) => Prepared(op)'
           /\ \A w \in Processes :
                step'[w] = step[w] => Ready(w)'
<1>1. ASSUME NEW op \in Operations, Prepared(op)
      PROVE  Prepared(op)'
  BY <1>1 DEF Prepared
<1>2. ASSUME NEW w \in Processes, step'[w] = step[w]
      PROVE  Ready(w)'
  BY <1>2 DEF IInv, ProcessesReady, Ready, Starting, Prepared
<1> QED
  BY <1>1, <1>2

LEMMA StepHolds == IInv /\ [Next]_regVars => IInv'
<1> SUFFICES ASSUME IInv, [Next]_regVars PROVE IInv'
  OBVIOUS
<1>0. TypeOK /\ RegistryInOrder /\ ProcessesReady /\ DelayedPrepared
  BY DEF IInv
<1>1. ASSUME NEW w \in Processes, Answered(w) PROVE IInv'
  <2>1. step[w] \in Operations /\ Prepared(step[w]) /\ CarryOut(step[w])
    BY <1>0, <1>1 DEF Answered, Starting, ProcessesReady, Ready
  <2>2. PICK op \in Operations : op = step[w]
    BY <2>1
  <2>3. /\ versions' \in Orderly
        /\ compat' \in {compat, "BACKWARD"}
        /\ compat = "BACKWARD" => compat' = "BACKWARD"
        /\ op = "config" => compat' = "BACKWARD"
        /\ versions' # << >> => compat' = "BACKWARD"
        /\ versions # << >> => versions' # << >>
        /\ op = "v1" => versions' # << >>
        /\ versions = <<"v1", "v2">> => versions' = <<"v1", "v2">>
        /\ op = "v2" => versions' = <<"v1", "v2">>
    BY <1>0, <2>1, <2>2, CarriedOut
  <2>4. /\ step' = [step EXCEPT ![w] = Following(op)]
        /\ UNCHANGED <<attempt, restarts, delayed>>
    BY <1>1, <2>2 DEF Answered
  <2>5. TypeOK'
    BY <1>0, <2>2, <2>3, <2>4, OrderlyIsSequence DEF TypeOK, Operations, Following
  <2>6. RegistryInOrder'
    BY <2>3 DEF RegistryInOrder, Orderly
  <2>7. DelayedPrepared'
    BY <1>0, <2>3, <2>4, Gains DEF DelayedPrepared, TypeOK
  <2>8. Ready(w)'
    BY <1>0, <2>2, <2>3, <2>4 DEF Ready, Starting, Prepared, Following, Operations, TypeOK, Orderly
  <2>9. ASSUME NEW v \in Processes PROVE Ready(v)'
    <3>1. CASE v = w
      BY <3>1, <2>8
    <3>2. CASE v # w
      BY <3>2, <1>0, <2>3, <2>4, Gains DEF TypeOK
    <3> QED
      BY <3>1, <3>2
  <2> QED
    BY <2>5, <2>6, <2>7, <2>9 DEF IInv, ProcessesReady
<1> DEFINE Gained ==
      /\ compat = "BACKWARD" => compat' = "BACKWARD"
      /\ versions # << >> => versions' # << >>
      /\ versions = <<"v1", "v2">> => versions' = <<"v1", "v2">>
      /\ compat' \in {"default", "BACKWARD"}
      /\ versions' \in Orderly
      /\ versions' # << >> => compat' = "BACKWARD"
<1>2. ASSUME NEW w \in Processes, TryAgain(w), Gained, restarts' = restarts,
             delayed' \subseteq delayed \union {step[w]}, Starting(w)
      PROVE  IInv'
  <2>1. /\ step' \in [Processes -> Operations \union {"serving", "failed"}]
        /\ attempt' \in [Processes -> 1 .. Retries]
        /\ step'[w] \in {"config", "failed"}
        /\ \A v \in Processes : v # w => step'[v] = step[v]
    BY <1>0, <1>2, TriedAgain
  <2>2. step[w] \in Operations /\ Prepared(step[w])
    BY <1>0, <1>2 DEF Starting, ProcessesReady, Ready
  <2>3. TypeOK' /\ RegistryInOrder'
    <3>1. TypeOK'
      BY <1>0, <1>2, <2>1, <2>2, OrderlyIsSequence DEF TypeOK
    <3>2. RegistryInOrder'
      BY <1>2 DEF RegistryInOrder, Orderly
    <3> QED
      BY <3>1, <3>2
  <2>4. DelayedPrepared'
    BY <1>0, <1>2, <2>2, Gains DEF DelayedPrepared, TypeOK
  <2>5. ASSUME NEW v \in Processes PROVE Ready(v)'
    <3>1. CASE v = w
      BY <3>1, <2>1 DEF Ready, Prepared
    <3>2. CASE v # w
      BY <3>2, <1>2, <2>1, Gains
    <3> QED
      BY <3>1, <3>2
  <2> QED
    BY <2>3, <2>4, <2>5 DEF IInv, ProcessesReady
<1>3. ASSUME UNCHANGED <<compat, versions>> PROVE Gained
  BY <1>0, <1>3 DEF TypeOK, RegistryInOrder, Orderly
<1>4. ASSUME NEW op \in Operations, Prepared(op), CarryOut(op) PROVE Gained
  BY <1>0, <1>4, CarriedOut DEF TypeOK
<1>5. ASSUME NEW w \in Processes, Fails(w) PROVE IInv'
  BY <1>2, <1>3, <1>5 DEF Fails
<1>6. ASSUME NEW w \in Processes, AnswerLost(w) PROVE IInv'
  <2>1. step[w] \in Operations /\ Prepared(step[w])
    BY <1>0, <1>6 DEF AnswerLost, Starting, ProcessesReady, Ready
  <2>2. PICK op \in Operations : op = step[w]
    BY <2>1
  <2>3. Gained
    BY <1>4, <1>6, <2>1, <2>2 DEF AnswerLost
  <2> QED
    BY <1>2, <1>6, <2>3 DEF AnswerLost
<1>7. ASSUME NEW w \in Processes, TimesOut(w) PROVE IInv'
  BY <1>2, <1>3, <1>7 DEF TimesOut
<1>8. ASSUME NEW w \in Processes, Restart(w) PROVE IInv'
  <2>1. Gained
    BY <1>3, <1>8 DEF Restart
  <2>2. TypeOK' /\ RegistryInOrder'
    BY <1>0, <1>8, RegistrationAssumption DEF Restart, TypeOK, RegistryInOrder, Operations
  <2>3. DelayedPrepared'
    BY <1>0, <1>8 DEF Restart, DelayedPrepared, Prepared
  <2>4. ASSUME NEW v \in Processes PROVE Ready(v)'
    <3>1. CASE v = w
      BY <1>0, <1>8, <3>1 DEF Restart, TypeOK, Ready, Prepared
    <3>2. CASE v # w
      BY <1>0, <1>8, <2>1, <3>2, Gains DEF Restart, TypeOK
    <3> QED
      BY <3>1, <3>2
  <2> QED
    BY <2>2, <2>3, <2>4 DEF IInv, ProcessesReady
<1>9. ASSUME NEW op \in Operations, Late(op) PROVE IInv'
  <2>1. Prepared(op) /\ Gained
    BY <1>0, <1>4, <1>9 DEF Late, DelayedPrepared
  <2>2. TypeOK' /\ RegistryInOrder'
    <3>1. TypeOK'
      BY <1>0, <1>9, <2>1, OrderlyIsSequence DEF Late, TypeOK
    <3>2. RegistryInOrder'
      BY <2>1 DEF RegistryInOrder, Orderly
    <3> QED
      BY <3>1, <3>2
  <2>3. DelayedPrepared'
    BY <1>0, <1>9, <2>1, Gains DEF Late, DelayedPrepared, TypeOK
  <2>4. ProcessesReady'
    BY <1>9, <2>1, Gains DEF Late, ProcessesReady
  <2> QED
    BY <2>2, <2>3, <2>4 DEF IInv
<1>10. CASE UNCHANGED regVars
  BY <1>0, <1>10 DEF regVars, IInv, TypeOK, RegistryInOrder, ProcessesReady,
                     DelayedPrepared, Ready, Starting, Prepared
<1> QED
  BY <1>1, <1>5, <1>6, <1>7, <1>8, <1>9, <1>10 DEF Next, Register

LEMMA Invariance == Spec => []IInv
  BY InitHolds, StepHolds, PTL DEF Spec

\* The variables keep their types.
THEOREM TypeCorrect == Spec => []TypeOK
<1>1. IInv => TypeOK
  BY DEF IInv
<1> QED
  BY <1>1, Invariance, PTL

\* Version n of the subject is schema vn, registered under BACKWARD.
THEOREM SchemasInOrder == Spec => []RegistryInOrder
<1>1. IInv => RegistryInOrder
  BY DEF IInv
<1> QED
  BY <1>1, Invariance, PTL

\* A process that serves finds both its schemas.
THEOREM ServersRegistered == Spec => []ServingMeansRegistered
<1>1. IInv => ServingMeansRegistered
  <2> SUFFICES ASSUME IInv, NEW w \in Processes, step[w] = "serving"
               PROVE  Registered("v1") /\ Registered("v2")
    BY DEF ServingMeansRegistered
  <2>1. versions = <<"v1", "v2">> /\ versions \in Orderly
    BY DEF IInv, ProcessesReady, Ready, RegistryInOrder, Orderly
  <2>2. versions # << >>
    BY <2>1
  <2> QED
    BY <2>1, <2>2, Contents
<1> QED
  BY <1>1, Invariance, PTL
=============================================================================
