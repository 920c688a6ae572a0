-------------------------- MODULE ToolNode_proofs ---------------------------
(* Proofs about ToolNode: types, what a call needs to run at all, and, as  *)
(* long as each dispatch asks that asked before, that replay keeps every   *)
(* value with its call, so that the node implements ApprovalGate.          *)
EXTENDS ToolNode, FiniteSetTheorems, TLAPS

(* The calls at which every rerun interrupts. *)
Interrupts(c) ==
    kind[c] = "ask" \/ CrossDomain(c) \/ (RequiresApproval(c) /\ enforced)

(* The values given and the calls they were given for go together. *)
Paired ==
    /\ asked <= Len(values)
    /\ given = <<>> \/ Len(given) = 1
    /\ Len(shownFor) = Len(values) + Len(given)
    /\ step = "parked" => given = <<>> /\ asked = Len(values)

(* The calls shown so far are the first interrupting ones, in order. *)
Prefix ==
    /\ \A i \in 1 .. Len(shownFor) : Interrupts(shownFor[i])
    /\ \A i, j \in 1 .. Len(shownFor) : i < j => shownFor[i] < shownFor[j]
    /\ \A c \in Call, i \in 1 .. Len(shownFor) :
          Interrupts(c) /\ c <= shownFor[i] => \E j \in 1 .. Len(shownFor) : shownFor[j] = c

(* The loop has passed exactly the interrupts whose values it has taken. *)
Position ==
    /\ step \in {"gate", "parked"} => Interrupts(at)
    /\ step = "approved" => asked > 0 /\ shownFor[asked] = at /\ values[asked] = "approved"
    /\ \A i \in 1 .. asked :
          shownFor[i] < at \/ (step = "approved" /\ i = asked)
    /\ \A i \in asked + 1 .. Len(shownFor) : shownFor[i] >= at
    /\ \A c \in Call : Interrupts(c) /\ c < at => \E i \in 1 .. asked : shownFor[i] = c

(* What the user said of a call is the value kept for it. *)
Remembered ==
    /\ \A i \in 1 .. Len(values) : values[i] = "approved" => shownFor[i] \in granted
    /\ given # <<>> => (given[1] = "approved" => shownFor[Len(shownFor)] \in granted)
    /\ \A c \in granted \cup refused : \E i \in 1 .. Len(shownFor) : shownFor[i] = c
    /\ \A c \in Gated : runs[c] > 0 => c \in granted

(* Whoever was not approved was refused, and so was who is told of it.     *)
Refusals ==
    /\ \A i \in 1 .. Len(values) : values[i] # "approved" => shownFor[i] \in refused
    /\ given # <<>> => (given[1] # "approved" => shownFor[Len(shownFor)] \in refused)
    /\ \A c \in Call : result[c] = "denied" => c \in refused

(* What is reported, whatever the user changes and whatever fails.         *)
Reports ==
    /\ \A c \in Call : result[c] = "ran" => runs[c] > 0
    /\ \A c \in Call : c < at => result[c] # "none"
    /\ step = "done" => at = Count + 1

Kept == capable = Call /\ Paired /\ Prefix /\ Position /\ Remembered

IInv == TypeOK /\ (Steady => Kept)

-----------------------------------------------------------------------------
(* Steps *)

(* What Append1 makes of the loop's variables.                             *)
LEMMA AppendType ==
    ASSUME TypeOK, at \in Call, NEW outcome \in Result, Append1(outcome)
    PROVE  /\ step' \in Step /\ step' = "call"
           /\ at' \in 1 .. Count + 1
           /\ result' \in [Call -> Result]
  BY CountAssumption DEF TypeOK, Call, Append1, Step

(* What Use makes of them.                                                 *)
LEMMA UseType ==
    ASSUME TypeOK, at \in Call, NEW value \in Value, Use(value)
    PROVE  /\ step' \in Step
           /\ at' \in 1 .. Count + 1
           /\ step' \in {"gate", "approved", "parked"} => at' \in Call
           /\ result' \in [Call -> Result]
<1>1. CASE step' = "approved" /\ UNCHANGED <<at, result>>
  BY <1>1 DEF TypeOK, Step
<1>2. ASSUME NEW outcome \in {"answered", "denied"}, Append1(outcome)
      PROVE step' \in Step /\ step' = "call" /\ at' \in 1 .. Count + 1 /\ result' \in [Call -> Result]
  BY <1>2, AppendType DEF Result
<1> QED
  BY <1>1, <1>2 DEF Use

(* An execution keeps every shape. *)
LEMMA ExecuteType == TypeOK /\ Execute => TypeOK'
<1> SUFFICES ASSUME TypeOK, Execute PROVE TypeOK'
  OBVIOUS
<1>1. at \in Call /\ UNCHANGED <<kind, enforced, asked, given, values, shownFor, capable, toggles, errors, granted, refused>>
  BY DEF Execute, fixed, checkpoint, outside
<1>2. PICK outcome \in {"ran", "error"} : Append1(outcome)
  BY DEF Execute
<1>3. runs' = runs \/ runs' = [runs EXCEPT ![at] = @ + 1]
  BY DEF Execute
<1>4. runs' \in [Call -> Nat]
  BY <1>1, <1>3 DEF TypeOK
<1>5. /\ step' \in Step /\ step' = "call"
      /\ at' \in 1 .. Count + 1
      /\ result' \in [Call -> Result]
  BY <1>1, <1>2, AppendType DEF Result
<1> QED
  BY <1>1, <1>4, <1>5 DEF TypeOK

(* Every step keeps every variable's shape.                                *)
LEMMA TypeStep == TypeOK /\ [Next]_vars => TypeOK'
<1> SUFFICES ASSUME TypeOK, [Next]_vars PROVE TypeOK'
  OBVIOUS
<1> USE CountAssumption, KindsAssumption, RevocationsAssumption
    DEF TypeOK, Call, Step, Result, Value, vars, fixed, code, checkpoint, outside, history
<1>1. CASE Reject
  <2>1. at \in Call /\ Append1("rejected") /\ UNCHANGED <<fixed, asked, given, checkpoint, outside, history>>
    BY <1>1 DEF Reject
  <2>2. step' = "call" /\ at' \in 1 .. Count + 1 /\ result' \in [Call -> Result]
    BY <2>1, AppendType
  <2> QED
    BY <2>1, <2>2
<1>2. CASE DispatchAsks
  BY <1>2 DEF DispatchAsks
<1>3. CASE CapabilityDenied \/ DispatchRaises
  <2>1. /\ at \in Call /\ Append1("error")
        /\ UNCHANGED <<fixed, asked, given, checkpoint, capable, toggles, history>>
        /\ errors' \in 0 .. ErrorsLeft
    BY <1>3 DEF CapabilityDenied, DispatchRaises
  <2>2. step' = "call" /\ at' \in 1 .. Count + 1 /\ result' \in [Call -> Result]
    BY <2>1, AppendType
  <2> QED
    BY <2>1, <2>2
<1>4. CASE DispatchRuns
  BY <1>4, ExecuteType DEF DispatchRuns
<1>5. CASE RedispatchRuns
  BY <1>5, ExecuteType DEF RedispatchRuns
<1>6. CASE RedispatchBlocked
  BY <1>6 DEF RedispatchBlocked, Append1
<1>7. CASE InterruptReplays
  <2>1. at \in Call /\ asked + 1 \in 1 .. Len(values) /\ asked' = asked + 1
    BY <1>7 DEF InterruptReplays
  <2>2. values[asked + 1] \in Value
    BY <2>1
  <2>3. Use(values[asked + 1]) /\ UNCHANGED <<fixed, given, checkpoint, outside, history>>
    BY <1>7 DEF InterruptReplays
  <2>4. /\ step' \in Step
        /\ at' \in 1 .. Count + 1
        /\ step' \in {"gate", "approved", "parked"} => at' \in Call
        /\ result' \in [Call -> Result]
    BY <2>1, <2>2, <2>3, UseType
  <2> QED
    BY <2>1, <2>3, <2>4
<1>8. CASE InterruptReturns
  <2>1. at \in Call /\ given[1] \in Value /\ asked' = asked + 1
    BY <1>8 DEF InterruptReturns
  <2>2. Use(given[1])
    BY <1>8 DEF InterruptReturns
  <2>3. values' \in Seq(Value) /\ given' \in Seq(Value)
    BY <1>8, <2>1 DEF InterruptReturns
  <2>4. UNCHANGED <<fixed, shownFor, outside, history>>
    BY <1>8 DEF InterruptReturns
  <2>5. /\ step' \in Step
        /\ at' \in 1 .. Count + 1
        /\ step' \in {"gate", "approved", "parked"} => at' \in Call
        /\ result' \in [Call -> Result]
    BY <2>1, <2>2, UseType
  <2> QED
    BY <2>1, <2>3, <2>4, <2>5
<1>9. CASE InterruptParks
  BY <1>9 DEF InterruptParks
<1>10. CASE Finish
  BY <1>10 DEF Finish
<1>11. ASSUME NEW value \in Value, Resume(value) PROVE TypeOK'
  BY <1>11 DEF Resume
<1>12. ASSUME NEW c \in Call, ToggleCapability(c) PROVE TypeOK'
  BY <1>12 DEF ToggleCapability
<1>13. CASE UNCHANGED vars
  BY <1>13
<1>14. QED
  BY <1>1, <1>2, <1>3, <1>4, <1>5, <1>6, <1>7, <1>8, <1>9, <1>10, <1>11, <1>12, <1>13 DEF Next, NodeStep

(* A rerun's next interrupt is the one its next value was given for. *)
LEMMA NextValueFits ==
    ASSUME TypeOK, Paired, Prefix, Position, step = "gate", asked < Len(shownFor)
    PROVE  shownFor[asked + 1] = at
<1>0. Len(shownFor) \in Nat /\ asked \in Nat /\ \A i \in 1 .. Len(shownFor) : shownFor[i] \in Call
  BY DEF TypeOK
<1>1. at \in Call /\ Interrupts(at)
  BY DEF Position, TypeOK
<1>2. asked + 1 \in 1 .. Len(shownFor) /\ shownFor[asked + 1] >= at
  BY <1>0 DEF Position
<1>3. PICK j \in 1 .. Len(shownFor) : shownFor[j] = at
  BY <1>1, <1>2 DEF Prefix
<1>4. ~(j \in 1 .. asked)
  BY <1>1, <1>3 DEF Position, Call
<1>5. asked + 1 < j => shownFor[asked + 1] < shownFor[j]
  BY <1>2 DEF Prefix
<1>6. shownFor[asked + 1] \in Int /\ at \in Int
  BY <1>0, <1>1, <1>2 DEF Call
<1>7. ~(asked + 1 < j)
  BY <1>2, <1>3, <1>5, <1>6
<1>8. j = asked + 1
  BY <1>0, <1>4, <1>7
<1> QED
  BY <1>3, <1>8

(* The values and the calls they are for stay paired.                      *)
LEMMA PairedStep == TypeOK /\ Paired /\ [Next]_vars => Paired'
<1> SUFFICES ASSUME TypeOK, Paired, [Next]_vars PROVE Paired'
  OBVIOUS
<1> USE DEF TypeOK, Value, Paired, Call, vars, fixed, code, checkpoint, outside, history
<1>1. CASE Reject
  BY <1>1 DEF Reject, Append1
<1>2. CASE DispatchAsks
  BY <1>2 DEF DispatchAsks
<1>3. CASE CapabilityDenied \/ DispatchRaises
  BY <1>3 DEF CapabilityDenied, DispatchRaises, Append1
<1>4. CASE DispatchRuns
  BY <1>4 DEF DispatchRuns, Append1, Execute
<1>5. CASE RedispatchRuns
  BY <1>5 DEF RedispatchRuns, Append1, Execute
<1>6. CASE RedispatchBlocked
  BY <1>6 DEF RedispatchBlocked, Append1
<1>7. CASE InterruptReplays
  BY <1>7 DEF InterruptReplays, Append1, Use
<1>8. CASE InterruptReturns
  <2>1. /\ asked = Len(values) /\ Len(given) = 1 /\ given' = <<>> /\ asked' = asked + 1
        /\ values' = Append(values, given[1]) /\ shownFor' = shownFor
        /\ step' # "parked"
    BY <1>8 DEF InterruptReturns, Use, Append1
  <2>2. Len(values') = Len(values) + 1 /\ Len(values) \in Nat /\ Len(given') = 0
    BY <2>1
  <2> QED
    BY <2>1, <2>2
<1>9. CASE InterruptParks
  BY <1>9 DEF InterruptParks
<1>10. CASE Finish
  BY <1>10 DEF Finish
<1>11. ASSUME NEW value \in Value, Resume(value) PROVE Paired'
  BY <1>11 DEF Resume
<1>12. ASSUME NEW c \in Call, ToggleCapability(c) PROVE Paired'
  BY <1>12 DEF ToggleCapability
<1>13. CASE UNCHANGED vars
  BY <1>13
<1>14. QED
  BY <1>1, <1>2, <1>3, <1>4, <1>5, <1>6, <1>7, <1>8, <1>9, <1>10, <1>11, <1>12, <1>13 DEF Next, NodeStep

(* The calls shown stay the first interrupting ones, in order.             *)
LEMMA PrefixStep == TypeOK /\ Paired /\ Prefix /\ Position /\ [Next]_vars => Prefix'
<1> SUFFICES ASSUME TypeOK, Paired, Prefix, Position, [Next]_vars PROVE Prefix'
  OBVIOUS
<1>1. CASE UNCHANGED <<kind, enforced, shownFor>>
  BY <1>1 DEF Prefix, Interrupts, CrossDomain, RequiresApproval
<1>2. ASSUME NEW value \in Value, Resume(value) PROVE Prefix'
  <2>1. /\ step = "parked" /\ at \in Call /\ shownFor' = Append(shownFor, at)
        /\ UNCHANGED <<kind, enforced>>
    BY <1>2 DEF Resume, fixed, TypeOK
  <2>2. Interrupts(at) /\ asked = Len(shownFor)
    BY <2>1 DEF Position, Paired, TypeOK
  <2>3. /\ Len(shownFor') = Len(shownFor) + 1 /\ Len(shownFor) \in Nat
        /\ shownFor'[Len(shownFor) + 1] = at
        /\ \A i \in 1 .. Len(shownFor) : shownFor'[i] = shownFor[i]
    BY <2>1 DEF TypeOK
  <2>5. \A i \in 1 .. Len(shownFor) : shownFor[i] < at /\ shownFor[i] \in Call
    <3>1. \A i \in 1 .. Len(shownFor) : shownFor[i] < at
      BY <2>1, <2>2 DEF Position
    <3>2. \A i \in 1 .. Len(shownFor) : shownFor[i] \in Call
      BY DEF TypeOK
    <3> QED
      BY <3>1, <3>2
  <2>6. \A i \in 1 .. Len(shownFor') : Interrupts(shownFor'[i])
    <3> SUFFICES ASSUME NEW i \in 1 .. Len(shownFor') PROVE Interrupts(shownFor'[i])
      OBVIOUS
    <3>1. CASE i \in 1 .. Len(shownFor)
      BY <3>1, <2>3 DEF Prefix
    <3>2. CASE i = Len(shownFor) + 1
      BY <3>2, <2>2, <2>3
    <3> QED
      BY <3>1, <3>2, <2>3
  <2>7. \A i, j \in 1 .. Len(shownFor') : i < j => shownFor'[i] < shownFor'[j]
    <3> SUFFICES ASSUME NEW i \in 1 .. Len(shownFor'), NEW j \in 1 .. Len(shownFor'), i < j
                 PROVE  shownFor'[i] < shownFor'[j]
      OBVIOUS
    <3>1. i \in 1 .. Len(shownFor) /\ shownFor'[i] = shownFor[i]
      BY <2>3
    <3>2. CASE j \in 1 .. Len(shownFor)
      BY <3>1, <3>2, <2>3 DEF Prefix
    <3>3. CASE j = Len(shownFor) + 1
      BY <3>1, <3>3, <2>3, <2>5
    <3> QED
      BY <3>2, <3>3, <2>3
  <2>8. ASSUME NEW c \in Call, NEW i \in 1 .. Len(shownFor'), Interrupts(c), c <= shownFor'[i]
        PROVE  \E j \in 1 .. Len(shownFor') : shownFor'[j] = c
    <3>1. CASE c = at
      BY <3>1, <2>3
    <3>2. CASE c < at
      <4>1. PICK j \in 1 .. asked : shownFor[j] = c
        BY <3>2, <2>8 DEF Position
      <4> QED
        BY <4>1, <2>2, <2>3
    <3>3. ~(at < c)
      <4>1. CASE i = Len(shownFor) + 1
        BY <4>1, <2>1, <2>3, <2>8 DEF Call
      <4>2. CASE i \in 1 .. Len(shownFor)
        BY <4>2, <2>1, <2>3, <2>5, <2>8 DEF Call
      <4> QED
        BY <4>1, <4>2, <2>3
    <3> QED
      BY <3>1, <3>2, <3>3, <2>1 DEF Call
  <2> QED
    BY <2>1, <2>6, <2>7, <2>8 DEF Prefix, Interrupts, CrossDomain, RequiresApproval
<1>3. Next => UNCHANGED <<kind, enforced, shownFor>> \/ \E value \in Value : Resume(value)
  BY DEF Next, NodeStep, Reject, DispatchAsks, CapabilityDenied, DispatchRaises, DispatchRuns, RedispatchRuns,
         RedispatchBlocked, InterruptReplays, InterruptReturns, InterruptParks, Finish,
         ToggleCapability, Execute, fixed, code, checkpoint
<1> QED
  BY <1>1, <1>2, <1>3 DEF vars, fixed, checkpoint

(* The loop's position stays that of the values it has taken, as long as   *)
(* the capabilities are left alone and no dispatch fails in the asking.    *)
LEMMA PositionStep ==
    ASSUME TypeOK, capable = Call, Paired, Prefix, Position, [Next]_vars, errors' = errors
    PROVE  Position'
<1>1. Len(shownFor) \in Nat /\ asked \in Nat /\ asked <= Len(shownFor) /\ Len(values) \in Nat
  BY DEF TypeOK, Paired
<1>2. \A i \in 1 .. Len(shownFor) : shownFor[i] \in Call
  BY DEF TypeOK
<1>3. /\ step \in {"gate", "parked"} => Interrupts(at)
      /\ step = "approved" => asked > 0 /\ shownFor[asked] = at /\ values[asked] = "approved"
      /\ \A i \in 1 .. asked : shownFor[i] < at \/ (step = "approved" /\ i = asked)
      /\ \A i \in asked + 1 .. Len(shownFor) : shownFor[i] >= at
      /\ \A c \in Call : Interrupts(c) /\ c < at => \E i \in 1 .. asked : shownFor[i] = c
  BY DEF Position
(* The loop goes on past a call that does not interrupt. *)
<1>4. ASSUME UNCHANGED <<kind, enforced, asked, values, shownFor>>, at \in Call,
             at' = at + 1, step' = "call", ~Interrupts(at), step # "approved"
      PROVE  Position'
  <2>1. \A i \in asked + 1 .. Len(shownFor) : shownFor[i] >= at + 1
    BY <1>1, <1>2, <1>3, <1>4 DEF Prefix, Call
  <2>2. \A i \in 1 .. asked : shownFor[i] < at + 1
    BY <1>1, <1>2, <1>3, <1>4 DEF Call
  <2>3. \A c \in Call : Interrupts(c) /\ c < at + 1 => \E i \in 1 .. asked : shownFor[i] = c
    BY <1>3, <1>4 DEF Call
  <2> QED
    BY <1>4, <2>1, <2>2, <2>3 DEF Position, Interrupts, CrossDomain, RequiresApproval
(* It goes on past a call whose approval it has used. *)
<1>5. ASSUME UNCHANGED <<kind, enforced, asked, values, shownFor>>, at \in Call,
             at' = at + 1, step' = "call", step = "approved"
      PROVE  Position'
  <2>1. asked \in 1 .. Len(shownFor) /\ shownFor[asked] = at
    BY <1>1, <1>3, <1>5
  <2>2. \A i \in asked + 1 .. Len(shownFor) : shownFor[i] >= at + 1
    BY <1>1, <1>2, <1>5, <2>1 DEF Prefix, Call
  <2>3. \A i \in 1 .. asked : shownFor[i] < at + 1
    BY <1>1, <1>2, <1>3, <1>5, <2>1 DEF Call
  <2>4. \A c \in Call : Interrupts(c) /\ c < at + 1 => \E i \in 1 .. asked : shownFor[i] = c
    BY <1>1, <1>3, <1>5, <2>1 DEF Call
  <2> QED
    BY <1>5, <2>2, <2>3, <2>4 DEF Position, Interrupts, CrossDomain, RequiresApproval
(* It passes an interrupt. *)
<1>6. ASSUME UNCHANGED <<kind, enforced, shownFor>>, at \in Call, step = "gate",
             asked < Len(shownFor), asked' = asked + 1,
             \/ at' = at + 1 /\ step' = "call"
             \/ at' = at /\ step' = "approved" /\ values'[asked + 1] = "approved"
      PROVE  Position'
  <2>1. shownFor[asked + 1] = at /\ asked + 1 \in 1 .. Len(shownFor)
    BY <1>1, <1>6, NextValueFits
  <2>2. \A i \in asked + 2 .. Len(shownFor) : shownFor[i] >= at + 1
    BY <1>1, <1>2, <1>6, <2>1 DEF Prefix, Call
  <2>3. \A i \in 1 .. asked : shownFor[i] < at
    BY <1>3, <1>6
  <2>4. \A c \in Call : Interrupts(c) /\ c < at + 1 => \E i \in 1 .. asked + 1 : shownFor[i] = c
    BY <1>1, <1>3, <1>6, <2>1 DEF Call
  <2>5. CASE at' = at + 1 /\ step' = "call"
    <3>1. \A i \in 1 .. asked + 1 : shownFor[i] < at + 1
      BY <1>1, <1>2, <1>6, <2>1, <2>3 DEF Call
    <3> QED
      BY <1>1, <1>6, <2>2, <2>4, <2>5, <3>1 DEF Position, Interrupts, CrossDomain, RequiresApproval
  <2>6. CASE at' = at /\ step' = "approved" /\ values'[asked + 1] = "approved"
    <3>1. \A i \in 1 .. asked + 1 : shownFor[i] < at \/ i = asked + 1
      BY <1>1, <2>3
    <3>2. \A i \in asked + 2 .. Len(shownFor) : shownFor[i] >= at
      BY <1>1, <1>2, <1>6, <2>2 DEF Call
    <3>3. \A c \in Call : Interrupts(c) /\ c < at => \E i \in 1 .. asked + 1 : shownFor[i] = c
      BY <1>6, <2>4 DEF Call
    <3> QED
      BY <1>1, <1>6, <2>1, <2>6, <3>1, <3>2, <3>3 DEF Position, Interrupts, CrossDomain, RequiresApproval
  <2> QED
    BY <1>6, <2>5, <2>6
(* The other steps. *)
<1>7. CASE Reject
  BY <1>7, <1>4 DEF Reject, Append1, Interrupts, CrossDomain, RequiresApproval, fixed, checkpoint
<1>8. CASE DispatchAsks
  BY <1>8, <1>3 DEF DispatchAsks, NeedsInterrupt, Position, Interrupts, CrossDomain, RequiresApproval, fixed, checkpoint
<1>9. CASE CapabilityDenied
  BY <1>9 DEF CapabilityDenied
<1>20. CASE DispatchRaises
  <2>1. /\ at \in Call /\ at' = at + 1 /\ step' = "call"
        /\ UNCHANGED <<kind, enforced, asked, values, shownFor>>
        /\ kind[at] \in {"low", "medium", "high"} /\ step \in {"call", "approved"}
    BY <1>20 DEF DispatchRaises, Append1, fixed, checkpoint
  <2>2. step = "call" => ~Interrupts(at)
    <3>1. errors \in Nat
      BY RevocationsAssumption DEF TypeOK
    <3>2. step = "call" => ~NeedsInterrupt
      BY <1>20, <3>1 DEF DispatchRaises
    <3> QED
      BY <2>1, <3>2 DEF NeedsInterrupt, Interrupts
  <2> QED
    BY <2>1, <2>2, <1>4, <1>5
<1>10. CASE DispatchRuns
  BY <1>10, <1>4 DEF DispatchRuns, Execute, Append1, Interrupts, CrossDomain, RequiresApproval, fixed, checkpoint
<1>11. CASE RedispatchRuns
  BY <1>11, <1>5 DEF RedispatchRuns, Execute, Append1, fixed, checkpoint
<1>12. CASE RedispatchBlocked
  BY <1>12, <1>5 DEF RedispatchBlocked, Append1, fixed, checkpoint
<1>13. CASE InterruptReplays
  <2>1. at \in Call /\ asked < Len(shownFor) /\ UNCHANGED <<kind, enforced, shownFor, values>>
    BY <1>13, <1>1 DEF InterruptReplays, TypeOK, Paired, fixed, checkpoint
  <2> QED
    BY <1>13, <2>1, <1>6 DEF InterruptReplays, Use, Append1
<1>14. CASE InterruptReturns
  <2>1. at \in Call /\ asked < Len(shownFor) /\ asked = Len(values) /\ UNCHANGED <<kind, enforced, shownFor>>
    BY <1>14, <1>1 DEF InterruptReturns, TypeOK, Paired, fixed
  <2>2. values'[asked + 1] = given[1]
    BY <1>14, <1>1, <2>1 DEF InterruptReturns, TypeOK
  <2> QED
    BY <1>14, <2>1, <2>2, <1>6 DEF InterruptReturns, Use, Append1
<1>15. CASE InterruptParks
  BY <1>15, <1>3 DEF InterruptParks, Position, Interrupts, CrossDomain, RequiresApproval, fixed, checkpoint
<1>16. CASE Finish
  BY <1>16, <1>3 DEF Finish, Position, Interrupts, CrossDomain, RequiresApproval, fixed, checkpoint
<1>17. ASSUME NEW value \in Value, Resume(value) PROVE Position'
  <2>1. /\ at' = 1 /\ asked' = 0 /\ step' = "call" /\ shownFor' = Append(shownFor, at)
        /\ at \in Call
    BY <1>17 DEF Resume, TypeOK
  <2>2. \A i \in 1 .. Len(shownFor') : shownFor'[i] \in Call
    BY <2>1, <1>1, <1>2 DEF TypeOK
  <2> QED
    BY <2>1, <2>2 DEF Position, Call
<1>18. ASSUME NEW c \in Call, ToggleCapability(c) PROVE Position'
  BY <1>18, <1>3 DEF ToggleCapability, Position, Interrupts, CrossDomain, RequiresApproval, fixed, code, checkpoint
<1>19. CASE UNCHANGED vars
  BY <1>19, <1>3 DEF Position, Interrupts, CrossDomain, RequiresApproval, vars, fixed, code, checkpoint
<1> QED
  BY <1>7, <1>8, <1>9, <1>10, <1>11, <1>12, <1>13, <1>14, <1>15, <1>16, <1>17, <1>18, <1>19, <1>20
     DEF Next, NodeStep

(* What the user said stays kept for the call it was said of, and nothing  *)
(* gated runs without it.                                                  *)
LEMMA RememberedStep ==
    ASSUME TypeOK, capable = Call, Paired, Position, Remembered, [Next]_vars
    PROVE  Remembered'
<1>1. Len(shownFor) \in Nat /\ asked \in Nat /\ Len(values) \in Nat /\ asked <= Len(values)
  BY DEF TypeOK, Paired
<1>2. /\ \A i \in 1 .. Len(values) : values[i] = "approved" => shownFor[i] \in granted
      /\ given # <<>> => (given[1] = "approved" => shownFor[Len(shownFor)] \in granted)
      /\ \A c \in granted \cup refused : \E i \in 1 .. Len(shownFor) : shownFor[i] = c
      /\ \A c \in Gated : runs[c] > 0 => c \in granted
  BY DEF Remembered
<1>3. kind' = kind /\ enforced' = enforced => Gated' = Gated
  BY DEF Gated, CrossDomain, RequiresApproval
<1>4. CASE UNCHANGED <<kind, enforced, given, values, shownFor, granted, refused, runs>>
  BY <1>2, <1>3, <1>4 DEF Remembered
<1>5. CASE DispatchRuns
  <2>1. at \in Call /\ at \notin Gated
    BY <1>5 DEF DispatchRuns, Gated, CrossDomain, RequiresApproval
  <2>2. UNCHANGED <<kind, enforced, given, values, shownFor, granted, refused>>
    BY <1>5 DEF DispatchRuns, Execute, fixed, checkpoint
  <2>3. \A c \in Gated : runs'[c] = runs[c]
    BY <1>5, <2>1 DEF DispatchRuns, Execute, TypeOK, Gated
  <2> QED
    BY <1>2, <1>3, <2>2, <2>3 DEF Remembered
<1>6. CASE RedispatchRuns
  <2>1. at \in Call /\ at \in granted
    <3>1. step = "approved" /\ at \in Call
      BY <1>6 DEF RedispatchRuns
    <3>2. asked \in 1 .. Len(values) /\ shownFor[asked] = at /\ values[asked] = "approved"
      BY <3>1, <1>1 DEF Position
    <3> QED
      BY <3>1, <3>2, <1>2
  <2>2. UNCHANGED <<kind, enforced, given, values, shownFor, granted, refused>>
    BY <1>6 DEF RedispatchRuns, Execute, fixed, checkpoint
  <2>3. \A c \in Gated : c # at => runs'[c] = runs[c]
    BY <1>6, <2>1 DEF RedispatchRuns, Execute, TypeOK, Gated
  <2> QED
    BY <1>2, <1>3, <2>1, <2>2, <2>3 DEF Remembered
<1>7. CASE InterruptReturns
  <2>1. /\ UNCHANGED <<kind, enforced, shownFor, granted, refused, runs>>
        /\ values' = Append(values, given[1]) /\ given' = <<>> /\ given # <<>>
    BY <1>7 DEF InterruptReturns, fixed, history
  <2>2. Len(shownFor) = Len(values) + 1
    BY <2>1, <1>1 DEF Paired
  <2>3. /\ Len(values') = Len(values) + 1
        /\ values'[Len(values) + 1] = given[1]
        /\ \A i \in 1 .. Len(values) : values'[i] = values[i]
    BY <2>1 DEF TypeOK
  <2>4. \A i \in 1 .. Len(values') : values'[i] = "approved" => shownFor[i] \in granted
    BY <1>1, <1>2, <2>1, <2>2, <2>3
  <2> QED
    BY <1>2, <1>3, <2>1, <2>4 DEF Remembered
<1>8. ASSUME NEW value \in Value, Resume(value) PROVE Remembered'
  <2>1. /\ UNCHANGED <<kind, enforced, values, runs>>
        /\ given' = <<value>> /\ shownFor' = Append(shownFor, at)
        /\ granted' = IF value = "approved" THEN granted \cup {at} ELSE granted
        /\ refused' = IF value = "approved" THEN refused ELSE refused \cup {at}
        /\ step = "parked" /\ at \in Call
    BY <1>8 DEF Resume, fixed, outside, TypeOK
  <2>2. Len(shownFor) = Len(values)
    BY <2>1, <1>1 DEF Paired
  <2>3. /\ Len(shownFor') = Len(shownFor) + 1
        /\ shownFor'[Len(shownFor) + 1] = at
        /\ \A i \in 1 .. Len(shownFor) : shownFor'[i] = shownFor[i]
    BY <2>1, <1>1 DEF TypeOK
  <2>4. \A i \in 1 .. Len(values') : values'[i] = "approved" => shownFor'[i] \in granted'
    BY <1>2, <2>1, <2>2, <2>3
  <2>5. given'[1] = "approved" => shownFor'[Len(shownFor')] \in granted'
    BY <2>1, <2>3
  <2>6. \A c \in granted' \cup refused' : \E i \in 1 .. Len(shownFor') : shownFor'[i] = c
    <3> SUFFICES ASSUME NEW c \in granted' \cup refused'
                 PROVE  \E i \in 1 .. Len(shownFor') : shownFor'[i] = c
      OBVIOUS
    <3>1. CASE c = at
      BY <3>1, <2>3, <1>1
    <3>2. CASE c \in granted \cup refused
      <4>1. PICK i \in 1 .. Len(shownFor) : shownFor[i] = c
        BY <3>2, <1>2
      <4> QED
        BY <4>1, <2>3, <1>1
    <3> QED
      BY <3>1, <3>2, <2>1
  <2>7. \A c \in Gated : runs[c] > 0 => c \in granted'
    BY <1>2, <2>1
  <2> QED
    BY <1>3, <2>1, <2>4, <2>5, <2>6, <2>7 DEF Remembered
<1>9. Next => \/ UNCHANGED <<kind, enforced, given, values, shownFor, granted, refused, runs>>
              \/ DispatchRuns \/ RedispatchRuns \/ InterruptReturns
              \/ \E value \in Value : Resume(value)
  BY DEF Next, NodeStep, Reject, DispatchAsks, CapabilityDenied, DispatchRaises, RedispatchBlocked,
         InterruptReplays, InterruptParks, Finish, ToggleCapability,
         fixed, code, checkpoint, outside, history
<1> QED
  BY <1>4, <1>5, <1>6, <1>7, <1>8, <1>9 DEF vars, fixed, code, checkpoint, history

(* A step that leaves the asking steady changes no capability, and no      *)
(* dispatch fails in the asking.                                           *)
LEMMA Untouched ==
    ASSUME TypeOK, [Next]_vars, Steady'
    PROVE  Steady /\ UNCHANGED <<capable, errors>>
<1>1. ASSUME NEW c \in Call, ToggleCapability(c) PROVE FALSE
  BY <1>1, RevocationsAssumption DEF ToggleCapability, TypeOK, Steady
<1>2. ASSUME DispatchRaises PROVE UNCHANGED errors
  BY <1>2, RevocationsAssumption DEF DispatchRaises, TypeOK, Steady
<1> QED
  BY <1>1, <1>2 DEF Steady, Next, NodeStep, Reject, DispatchAsks, CapabilityDenied, DispatchRaises, DispatchRuns,
         RedispatchRuns, RedispatchBlocked, InterruptReplays, InterruptReturns, InterruptParks,
         Finish, Resume, Execute, vars, outside

(* The invariant holds when the node is entered, with nothing asked yet.   *)
LEMMA InitIInv == Init => IInv
  BY CountAssumption, RevocationsAssumption
     DEF Init, IInv, Steady, Kept, TypeOK, Call, Step, Result, Value, Paired, Prefix, Position, Remembered,
         Interrupts, Gated

(* Every step keeps it. *)
LEMMA NextIInv == IInv /\ [Next]_vars => IInv'
<1> SUFFICES ASSUME IInv, [Next]_vars PROVE IInv'
  OBVIOUS
<1>1. TypeOK'
  BY TypeStep DEF IInv
<1>2. ASSUME Steady' PROVE Kept'
  <2>1. Kept /\ capable' = Call /\ errors' = errors
    BY <1>2, Untouched DEF IInv, Kept
  <2>2. Paired' /\ Prefix' /\ Position' /\ Remembered'
    BY <2>1, PairedStep, PrefixStep, PositionStep, RememberedStep DEF IInv, Kept
  <2> QED
    BY <2>1, <2>2 DEF Kept, Call
<1> QED
  BY <1>1, <1>2 DEF IInv

(* The strengthened invariant. *)
LEMMA Invariance == Spec => []IInv
  BY InitIInv, NextIInv, PTL DEF Spec

-----------------------------------------------------------------------------
(* Theorems *)

(* Every variable of every behaviour has the type TypeOK gives it, however *)
(* many calls the agent makes, whatever the user revokes or dispatch fails.*)
THEOREM TypeCorrect == Spec => []TypeOK
<1>1. Init => TypeOK
  BY CountAssumption, RevocationsAssumption DEF Init, TypeOK, Call, Step, Result, Value
<1> QED
  BY <1>1, TypeStep, PTL DEF Spec

(* However many calls interrupt, the rerun of the node hands each the      *)
(* value the user gave for it, as long as each dispatch asks that asked    *)
(* before: no capability has changed, and none failed in the asking        *)
(* (tool_node replay; RunsOnlyGranted is refuted without that).            *)
THEOREM ReplayFits == Spec => []ValuesStayWithTheirCalls
<1>1. IInv => ValuesStayWithTheirCalls
  BY NextValueFits DEF IInv, Kept, ValuesStayWithTheirCalls
<1> QED
  BY <1>1, Invariance, PTL

(* No gated call runs that the user did not approve while it was shown, as *)
(* long as no capability changes and no dispatch fails in the asking.      *)
THEOREM OnlyGrantedRun == Spec => [](Steady => RunsOnlyGranted)
<1>1. IInv => (Steady => RunsOnlyGranted)
  BY DEF IInv, Kept, Remembered, RunsOnlyGranted
<1> QED
  BY <1>1, Invariance, PTL

(* Nothing passes for an approval where the user has given none.           *)
Unasked ==
    granted = {} =>
        /\ step # "approved"
        /\ \A i \in DOMAIN given : given[i] # "approved"
        /\ \A i \in DOMAIN values : values[i] # "approved"
        /\ \A c \in Gated : runs[c] = 0

(* An interrupt makes an approval of nothing but one.                      *)
LEMMA UseUnasked == \A value : Use(value) /\ step' = "approved" => value = "approved"
  BY DEF Use, Append1

(* Every step keeps it.                                                    *)
LEMMA UnaskedStep == TypeOK /\ Unasked /\ [Next]_vars => Unasked'
<1> SUFFICES ASSUME TypeOK, Unasked, [Next]_vars, granted' = {}
             PROVE  /\ step' # "approved"
                    /\ \A i \in DOMAIN given' : given'[i] # "approved"
                    /\ \A i \in DOMAIN values' : values'[i] # "approved"
                    /\ \A c \in Gated' : runs'[c] = 0
  BY DEF Unasked
<1>1. granted = {} /\ UNCHANGED <<kind, enforced>>
  BY DEF Next, NodeStep, Reject, DispatchAsks, CapabilityDenied, DispatchRaises, DispatchRuns,
         RedispatchRuns, RedispatchBlocked, InterruptReplays, InterruptReturns, InterruptParks,
         Finish, Resume, ToggleCapability, Execute, vars, fixed, history
<1>2. /\ step # "approved"
      /\ \A i \in DOMAIN given : given[i] # "approved"
      /\ \A i \in DOMAIN values : values[i] # "approved"
      /\ \A c \in Gated : runs[c] = 0
      /\ Gated' = Gated
  BY <1>1 DEF Unasked, Gated, CrossDomain, RequiresApproval
<1>3. CASE UNCHANGED <<given, values, runs>> /\ step' # "approved"
  BY <1>2, <1>3
<1>4. CASE DispatchRuns
  <2>1. at \in Call /\ at \notin Gated
    BY <1>4 DEF DispatchRuns, Gated, CrossDomain, RequiresApproval
  <2>2. UNCHANGED <<given, values>> /\ step' # "approved"
    BY <1>4 DEF DispatchRuns, Execute, Append1, checkpoint
  <2>3. \A c \in Gated : runs'[c] = runs[c]
    BY <1>4, <2>1 DEF DispatchRuns, Execute, TypeOK, Gated
  <2> QED
    BY <1>2, <2>2, <2>3
<1>5. CASE InterruptReplays
  <2>1. asked + 1 \in DOMAIN values /\ Use(values[asked + 1]) /\ UNCHANGED <<given, values, runs>>
    BY <1>5 DEF InterruptReplays, TypeOK, checkpoint, history
  <2> QED
    BY <1>2, <1>3, <2>1, UseUnasked
<1>6. CASE InterruptReturns
  <2>1. /\ 1 \in DOMAIN given /\ Use(given[1]) /\ runs' = runs
        /\ given' = <<>> /\ values' = Append(values, given[1])
    BY <1>6 DEF InterruptReturns, TypeOK, history
  <2>2. \A i \in DOMAIN values' : values'[i] = given[1] \/ (i \in DOMAIN values /\ values'[i] = values[i])
    BY <2>1 DEF TypeOK
  <2> QED
    BY <1>2, <2>1, <2>2, UseUnasked
<1>7. ASSUME NEW value \in Value, Resume(value)
      PROVE  /\ step' # "approved" /\ values' = values /\ runs' = runs
             /\ \A i \in DOMAIN given' : given'[i] # "approved"
  <2>1. value # "approved"
    BY <1>7 DEF Resume
  <2> QED
    BY <1>7, <2>1 DEF Resume
<1>8. RedispatchRuns \/ RedispatchBlocked => FALSE
  BY <1>2 DEF RedispatchRuns, RedispatchBlocked
<1> QED
  BY <1>2, <1>3, <1>4, <1>5, <1>6, <1>7, <1>8
     DEF Next, NodeStep, Reject, DispatchAsks, CapabilityDenied, DispatchRaises, InterruptParks,
         Finish, ToggleCapability, Append1, vars, code, checkpoint, history

(* Whatever the user revokes and whatever fails, a call that needs         *)
(* approval runs only once the user has approved some call of the list:    *)
(* what RunsOnlyGranted keeps when the interrupts of a rerun have shifted  *)
(* (tool_node: only an approved decision leads to the second dispatch).    *)
THEOREM NothingRunsUnasked == Spec => [](granted = {} => \A c \in Gated : runs[c] = 0)
<1>1. Init => Unasked
  BY DEF Init, Unasked, Gated
<1>2. Unasked => (granted = {} => \A c \in Gated : runs[c] = 0)
  BY DEF Unasked
<1> QED
  BY <1>1, <1>2, UnaskedStep, TypeCorrect, PTL DEF Spec

(* The other part of the invariant: what the node reports.                 *)
HonestInv == IInv /\ Reports /\ (Steady => Refusals)

(* An entry appended is the only one that changes.                         *)
LEMMA Appended ==
    ASSUME TypeOK, at \in Call, NEW outcome \in Result, Append1(outcome)
    PROVE  /\ result'[at] = outcome
           /\ \A c \in Call : c # at => result'[c] = result[c]
           /\ at' = at + 1 /\ step' = "call"
  BY DEF Append1, TypeOK

(* Appending an entry, that of a run call only if it ran, keeps the reports*)
LEMMA ReportsAppend ==
    ASSUME TypeOK, Reports, at \in Call, NEW outcome \in Result \ {"none"}, Append1(outcome),
           runs' \in [Call -> Nat], \A c \in Call : runs'[c] >= runs[c],
           outcome = "ran" => runs'[at] > 0
    PROVE  Reports'
<1>1. /\ result'[at] = outcome
      /\ \A c \in Call : c # at => result'[c] = result[c]
      /\ at' = at + 1 /\ step' = "call"
  BY Appended
<1>2. \A c \in Call : result'[c] = "ran" => runs'[c] > 0
  BY <1>1 DEF Reports, TypeOK
<1>3. \A c \in Call : c < at' => result'[c] # "none"
  BY <1>1 DEF Reports, Call
<1> QED
  BY <1>1, <1>2, <1>3 DEF Reports

(* No report is made up, and none is left out.                             *)
LEMMA ReportsStep == TypeOK /\ Reports /\ [Next]_vars => Reports'
<1> SUFFICES ASSUME TypeOK, Reports, [Next]_vars PROVE Reports'
  OBVIOUS
<1>0. runs \in [Call -> Nat] /\ \A c \in Call : runs[c] >= runs[c]
  BY DEF TypeOK
<1>1. ASSUME UNCHANGED <<at, result, runs>>, step' # "done" PROVE Reports'
  BY <1>1 DEF Reports
<1>2. ASSUME at \in Call, NEW outcome \in Result \ {"none", "ran"}, Append1(outcome),
             UNCHANGED runs
      PROVE  Reports'
  BY <1>0, <1>2, ReportsAppend
<1>3. CASE Reject
  BY <1>2, <1>3 DEF Reject, history, Result
<1>4. CASE DispatchAsks \/ InterruptParks
  BY <1>1, <1>4 DEF DispatchAsks, InterruptParks, history
<1>5. CASE CapabilityDenied \/ DispatchRaises
  BY <1>2, <1>5 DEF CapabilityDenied, DispatchRaises, history, Result
<1>6. ASSUME Execute PROVE Reports'
  <2>1. at \in Call
    BY <1>6 DEF Execute
  <2>2. CASE Append1("error") /\ UNCHANGED runs
    BY <1>2, <2>1, <2>2 DEF Result
  <2>3. CASE /\ \E outcome \in {"ran", "error"} : Append1(outcome)
             /\ runs' = [runs EXCEPT ![at] = @ + 1]
    <3>1. PICK outcome \in {"ran", "error"} : Append1(outcome)
      BY <2>3
    <3>2. outcome \in Result \ {"none"}
      BY DEF Result
    <3>3. /\ runs' \in [Call -> Nat] /\ \A c \in Call : runs'[c] >= runs[c]
          /\ runs'[at] > 0
      BY <2>1, <2>3 DEF TypeOK
    <3> QED
      BY <2>1, <3>1, <3>2, <3>3, ReportsAppend
  <2> QED
    BY <1>6, <2>2, <2>3 DEF Execute
<1>7. CASE DispatchRuns \/ RedispatchRuns
  BY <1>6, <1>7 DEF DispatchRuns, RedispatchRuns
<1>8. CASE RedispatchBlocked
  BY <1>2, <1>8 DEF RedispatchBlocked, history, Result
<1>9. ASSUME NEW value, at \in Call, Use(value), UNCHANGED runs PROVE Reports'
  <2>1. CASE step' = "approved" /\ UNCHANGED <<at, result>>
    BY <1>1, <1>9, <2>1
  <2>2. CASE Append1("answered") \/ Append1("denied")
    BY <1>2, <1>9, <2>2 DEF Result
  <2> QED
    BY <1>9, <2>1, <2>2 DEF Use
<1>10. CASE InterruptReplays
  BY <1>9, <1>10 DEF InterruptReplays, TypeOK, history
<1>11. CASE InterruptReturns
  BY <1>9, <1>11 DEF InterruptReturns, TypeOK, history
<1>12. CASE Finish
  BY <1>12 DEF Finish, Reports, history
<1>13. ASSUME NEW value \in Value, Resume(value) PROVE Reports'
  BY <1>13 DEF Resume, Reports, Call
<1>14. ASSUME NEW c \in Call, ToggleCapability(c) PROVE Reports'
  BY <1>14 DEF ToggleCapability, Reports, code, history
<1>15. CASE UNCHANGED vars
  BY <1>15 DEF Reports, vars, code, history
<1> QED
  BY <1>3, <1>4, <1>5, <1>7, <1>8, <1>10, <1>11, <1>12, <1>13, <1>14, <1>15 DEF Next, NodeStep

(* A denial that is reported is one the user spoke, as long as the values  *)
(* stay with their calls.                                                  *)
LEMMA RefusalsStep == TypeOK /\ Kept /\ Refusals /\ [Next]_vars => Refusals'
<1> SUFFICES ASSUME TypeOK, Kept, Refusals, [Next]_vars PROVE Refusals'
  OBVIOUS
<1> USE DEF Kept
<1>1. Len(shownFor) \in Nat /\ asked \in Nat /\ Len(values) \in Nat /\ asked <= Len(values)
  BY DEF TypeOK, Paired
(* A step that gives no value may report anything but a denial.            *)
<1>2. ASSUME UNCHANGED <<given, values, shownFor, refused>>,
             \A c \in Call : result'[c] = "denied" => result[c] = "denied" \/ c \in refused
      PROVE  Refusals'
  BY <1>2 DEF Refusals
<1>3. ASSUME at \in Call, NEW outcome \in Result \ {"denied"}, Append1(outcome),
             UNCHANGED <<given, values, shownFor, refused>>
      PROVE  Refusals'
  <2>1. \A c \in Call : result'[c] = "denied" => result[c] = "denied"
    BY <1>3, Appended
  <2> QED
    BY <1>2, <1>3, <2>1
<1>4. CASE Reject \/ CapabilityDenied \/ DispatchRaises \/ RedispatchBlocked
  BY <1>3, <1>4 DEF Reject, CapabilityDenied, DispatchRaises, RedispatchBlocked, Result, checkpoint,
                    history
<1>5. CASE DispatchRuns \/ RedispatchRuns
  <2>1. Execute
    BY <1>5 DEF DispatchRuns, RedispatchRuns
  <2>2. PICK outcome \in {"ran", "error"} : Append1(outcome)
    BY <2>1 DEF Execute
  <2>3. at \in Call /\ UNCHANGED <<given, values, shownFor, refused>>
    BY <2>1 DEF Execute, checkpoint
  <2> QED
    BY <1>3, <2>2, <2>3 DEF Result
<1>6. CASE DispatchAsks \/ InterruptParks \/ Finish
  BY <1>2, <1>6 DEF DispatchAsks, InterruptParks, Finish, checkpoint, history
(* The value an interrupt() takes was given for this call.                 *)
<1>7. ASSUME NEW value \in Value, at \in Call, Use(value),
             value # "approved" => at \in refused
      PROVE  \A c \in Call : result'[c] = "denied" => result[c] = "denied" \/ c \in refused
  <2>1. CASE UNCHANGED result
    BY <2>1
  <2>2. CASE Append1("answered")
    BY <1>7, <2>2, Appended DEF Result
  <2>3. CASE Append1("denied") /\ value # "approved"
    BY <1>7, <2>3, Appended DEF Result
  <2> QED
    BY <1>7, <2>1, <2>2, <2>3 DEF Use
<1>8. CASE InterruptReplays
  <2>1. /\ at \in Call /\ asked + 1 \in 1 .. Len(values) /\ Use(values[asked + 1])
        /\ UNCHANGED <<given, values, shownFor, refused>>
    BY <1>1, <1>8 DEF InterruptReplays, TypeOK, checkpoint, history
  <2>2. shownFor[asked + 1] = at
    BY <1>1, <1>8, <2>1, NextValueFits DEF InterruptReplays, Paired, TypeOK
  <2>3. values[asked + 1] \in Value
    BY <2>1 DEF TypeOK
  <2>4. values[asked + 1] # "approved" => at \in refused
    BY <2>1, <2>2 DEF Refusals
  <2>5. \A c \in Call : result'[c] = "denied" => result[c] = "denied" \/ c \in refused
    BY <1>7, <2>1, <2>3, <2>4
  <2> QED
    BY <1>2, <2>1, <2>5
<1>9. CASE InterruptReturns
  <2>1. /\ at \in Call /\ given # <<>> /\ Use(given[1]) /\ asked = Len(values)
        /\ values' = Append(values, given[1]) /\ given' = <<>>
        /\ UNCHANGED <<shownFor, refused>>
    BY <1>1, <1>9 DEF InterruptReturns, TypeOK, history
  <2>2. Len(shownFor) = Len(values) + 1
    BY <1>1, <2>1 DEF Paired
  <2>3. shownFor[asked + 1] = at
    BY <1>1, <1>9, <2>1, <2>2, NextValueFits DEF InterruptReturns
  <2>4. given[1] \in Value
    BY <2>1 DEF TypeOK
  <2>5. given[1] # "approved" => at \in refused
    BY <2>1, <2>2, <2>3 DEF Refusals
  <2>6. \A c \in Call : result'[c] = "denied" => result[c] = "denied" \/ c \in refused
    BY <1>7, <2>1, <2>4, <2>5
  <2>7. /\ Len(values') = Len(values) + 1 /\ values'[Len(values) + 1] = given[1]
        /\ \A i \in 1 .. Len(values) : values'[i] = values[i]
    BY <2>1, <2>4 DEF TypeOK
  <2>8. \A i \in 1 .. Len(values') : values'[i] # "approved" => shownFor[i] \in refused
    BY <1>1, <2>1, <2>3, <2>5, <2>7 DEF Refusals
  <2> QED
    BY <2>1, <2>6, <2>8 DEF Refusals
<1>10. ASSUME NEW value \in Value, Resume(value) PROVE Refusals'
  <2>1. /\ UNCHANGED values /\ given' = <<value>> /\ shownFor' = Append(shownFor, at)
        /\ refused' = IF value = "approved" THEN refused ELSE refused \cup {at}
        /\ result' = [c \in Call |-> "none"]
        /\ step = "parked" /\ at \in Call
    BY <1>10 DEF Resume, TypeOK
  <2>2. Len(shownFor) = Len(values)
    BY <1>1, <2>1 DEF Paired
  <2>3. /\ Len(shownFor') = Len(shownFor) + 1 /\ shownFor'[Len(shownFor) + 1] = at
        /\ \A i \in 1 .. Len(shownFor) : shownFor'[i] = shownFor[i]
    BY <2>1 DEF TypeOK
  <2>4. \A i \in 1 .. Len(values') : values'[i] # "approved" => shownFor'[i] \in refused'
    BY <2>1, <2>2, <2>3 DEF Refusals
  <2>5. given'[1] # "approved" => shownFor'[Len(shownFor')] \in refused'
    BY <2>1, <2>3
  <2> QED
    BY <2>1, <2>4, <2>5 DEF Refusals
<1>11. ASSUME NEW c \in Call, ToggleCapability(c) PROVE Refusals'
  BY <1>2, <1>11 DEF ToggleCapability, code, checkpoint, history
<1>12. CASE UNCHANGED vars
  BY <1>2, <1>12 DEF vars, code, checkpoint, history
<1> QED
  BY <1>4, <1>5, <1>6, <1>8, <1>9, <1>10, <1>11, <1>12 DEF Next, NodeStep

(* What the agent is told of a call is what happened to it, however many   *)
(* reruns and replays there are: a run that is reported was one, every     *)
(* call gets its report, and a denial is the user's as long as each        *)
(* dispatch asks that asked before.                                        *)
THEOREM ReportsAreHonest == Spec => []ResultsAreHonest
<1>1. Init => HonestInv
  <2> SUFFICES ASSUME Init PROVE HonestInv
    OBVIOUS
  <2>1. Reports
    BY DEF Init, Reports, Call
  <2>2. Refusals
    BY DEF Init, Refusals
  <2> QED
    BY <2>1, <2>2, InitIInv DEF HonestInv
<1>2. HonestInv /\ [Next]_vars => HonestInv'
  <2> SUFFICES ASSUME HonestInv, [Next]_vars PROVE HonestInv'
    OBVIOUS
  <2>1. IInv' /\ Reports'
    BY NextIInv, ReportsStep DEF HonestInv, IInv
  <2>2. ASSUME Steady' PROVE Refusals'
    <3>1. Steady
      BY <2>2, Untouched DEF HonestInv, IInv
    <3> QED
      BY <3>1, RefusalsStep DEF HonestInv, IInv
  <2> QED
    BY <2>1, <2>2 DEF HonestInv
<1>3. HonestInv => ResultsAreHonest
  BY DEF HonestInv, Reports, Refusals, ResultsAreHonest
<1> QED
  BY <1>1, <1>2, <1>3, PTL DEF Spec

(* An execution of the adapter is a step the gate allows.                  *)
LEMMA ExecuteIsRun ==
    ASSUME TypeOK, Execute, at \in Gated => at \in granted
    PROVE  Gate!Run(at) \/ UNCHANGED Gate!gateVars
<1>1. at \in Call /\ UNCHANGED <<kind, enforced, granted, refused, toggles, errors>>
  BY DEF Execute, fixed, outside
<1>2. Gated' = Gated
  BY <1>1 DEF Gated, CrossDomain, RequiresApproval
<1>3. runs' = runs \/ runs' = [runs EXCEPT ![at] = @ + 1]
  BY DEF Execute
<1>4. CASE runs' = runs
  BY <1>1, <1>2, <1>4 DEF Gate!gateVars, Steady
<1>5. CASE runs' = [runs EXCEPT ![at] = @ + 1]
  <2>1. {c \in Call : runs'[c] > 0} = {c \in Call : runs[c] > 0} \cup {at}
    BY <1>1, <1>5 DEF TypeOK
  <2> QED
    BY <1>1, <1>2, <2>1 DEF Gate!Run, Steady
<1> QED
  BY <1>3, <1>4, <1>5

(* The node implements the gate: replays, refusals, answers, failures and  *)
(* all, each of its steps is a step of ApprovalGate or none.  The promise  *)
(* lapses at the first change of a capability and at the first dispatch    *)
(* that fails in the asking.                                               *)
THEOREM NodeImplementsGate == Spec => ImplementsGate
<1>1. Init => Gate!Init
  BY DEF Init, Gate!Init, Gated, Steady
<1>2. IInv /\ [Next]_vars => [Gate!Next]_(Gate!gateVars)
  <2> SUFFICES ASSUME IInv, [Next]_vars PROVE Gate!Next \/ UNCHANGED Gate!gateVars
    OBVIOUS
  <2> USE DEF IInv
  <2>1. kind' = kind /\ enforced' = enforced => Gated' = Gated
    BY DEF Gated, CrossDomain, RequiresApproval
  <2>2. CASE UNCHANGED <<kind, enforced, granted, refused, runs, toggles, errors>>
    BY <2>1, <2>2 DEF Gate!gateVars, Steady
  (* Steps that end the promise, or that come after its end.               *)
  <2>3. CASE UNCHANGED <<kind, enforced, granted, refused, runs>> /\ Steady /\ ~Steady'
    BY <2>1, <2>3 DEF Gate!Next, Gate!Lapse
  <2>4. CASE ~Steady /\ ~Steady'
    BY <2>4 DEF Gate!Next, Gate!Lapsed
  <2>5. ASSUME Steady, DispatchRuns PROVE Gate!Next \/ UNCHANGED Gate!gateVars
    <3>1. Execute /\ at \in Call /\ at \notin Gated
      BY <2>5 DEF DispatchRuns, Gated, CrossDomain, RequiresApproval
    <3>2. Gate!Run(at) \/ UNCHANGED Gate!gateVars
      BY <3>1, ExecuteIsRun
    <3>3. Gate!Run(at) => Gate!Next
      BY <3>1 DEF Gate!Next, Gate!Run
    <3> QED
      BY <3>2, <3>3
  <2>6. ASSUME Steady, RedispatchRuns PROVE Gate!Next \/ UNCHANGED Gate!gateVars
    <3>1. Execute /\ at \in Call /\ step = "approved" /\ Kept
      BY <2>6 DEF RedispatchRuns
    <3>2. asked \in 1 .. Len(values) /\ shownFor[asked] = at /\ values[asked] = "approved"
      BY <3>1 DEF Kept, Position, Paired, TypeOK
    <3>3. at \in granted
      BY <3>1, <3>2 DEF Kept, Remembered
    <3>4. Gate!Run(at) \/ UNCHANGED Gate!gateVars
      BY <3>1, <3>3, ExecuteIsRun
    <3>5. Gate!Run(at) => Gate!Next
      BY <3>1 DEF Gate!Next, Gate!Run
    <3> QED
      BY <3>4, <3>5
  <2>7. ASSUME Steady, NEW value \in Value, Resume(value) PROVE Gate!Next
    <3>1. /\ UNCHANGED <<kind, enforced, runs, toggles, errors>> /\ step = "parked" /\ at \in Call
          /\ \/ granted' = granted \cup {at} /\ refused' = refused
             \/ granted' = granted /\ refused' = refused \cup {at}
      BY <2>7 DEF Resume, fixed, outside, TypeOK
    <3>2. at \notin granted \cup refused
      <4>0. Kept
        BY <2>7
      <4>1. asked = Len(shownFor)
        BY <3>1, <4>0 DEF Kept, Paired, TypeOK
      <4>2. \A i \in 1 .. Len(shownFor) : shownFor[i] < at
        BY <3>1, <4>0, <4>1 DEF Kept, Position
      <4>3. at \in Int
        BY <3>1 DEF Call
      <4> QED
        BY <4>0, <4>2, <4>3 DEF Kept, Remembered
    <3>3. Gate!Grant(at) \/ Gate!Refuse(at)
      BY <2>1, <3>1, <3>2 DEF Gate!Grant, Gate!Refuse, Steady
    <3> QED
      BY <3>1, <3>3 DEF Gate!Next
  (* What was not steady does not become so again.                         *)
  <2>8. Steady \/ ~Steady'
    BY TypeStep, Untouched
  <2>9. Next => \/ UNCHANGED <<kind, enforced, granted, refused, runs>>
                \/ (DispatchRuns \/ RedispatchRuns \/ \E value \in Value : Resume(value))
    BY DEF Next, NodeStep, Reject, DispatchAsks, CapabilityDenied, DispatchRaises,
           RedispatchBlocked, InterruptReplays, InterruptReturns, InterruptParks, Finish,
           ToggleCapability, fixed, history
  <2>10. CASE UNCHANGED <<kind, enforced, granted, refused, runs>>
    <3>1. Steady /\ Steady' => UNCHANGED <<toggles, errors>>
      BY DEF Steady
    <3> QED
      BY <2>2, <2>3, <2>4, <2>8, <2>10, <3>1
  <2>11. CASE DispatchRuns \/ RedispatchRuns \/ \E value \in Value : Resume(value)
    <3>1. ~Steady => ~Steady'
      BY <2>8
    <3> QED
      BY <2>4, <2>5, <2>6, <2>7, <2>11, <3>1
  <2> QED
    BY <2>9, <2>10, <2>11 DEF vars, fixed, history
<1> QED
  BY <1>1, <1>2, Invariance, PTL DEF Spec, Gate!Spec, ImplementsGate

-----------------------------------------------------------------------------
(* The steps of one run of the node's code, in order.                      *)
StepRank(s) ==
    CASE s = "call" -> 0 [] s = "gate" -> 1 [] s = "approved" -> 2 [] OTHER -> 3

Pace == 4 * at + StepRank(step)

(* As long as each dispatch asks that asked before, the calls shown are    *)
(* distinct and the one that waits for the user has not been shown.        *)
ShownOnce ==
    Steady =>
        /\ \A i, j \in DOMAIN shownFor : shownFor[i] = shownFor[j] => i = j
        /\ step = "parked" => \A i \in DOMAIN shownFor : shownFor[i] # at

(* Until the user changes a capability, or a dispatch fails in the asking, *)
(* no call is shown twice, however often the node runs again; and each run *)
(* of its code comes, whatever changes or fails, within 4 * Count + 3      *)
(* steps to its end or to a call to show.  The user is asked once for each *)
(* call at most, and nothing else can hold the node up (tool_node under    *)
(* LangGraph's replay; the safety part of NodeFinishes).                   *)
THEOREM NobodyIsAskedTwice ==
    Spec => [](ShownOnce /\ Pace <= 4 * Count + 7) /\ [][NodeStep => Pace' > Pace]_vars
<1> USE CountAssumption
<1>1. IInv => ShownOnce
  <2> SUFFICES ASSUME IInv, Steady
               PROVE  /\ \A i, j \in DOMAIN shownFor : shownFor[i] = shownFor[j] => i = j
                      /\ step = "parked" => \A i \in DOMAIN shownFor : shownFor[i] # at
    BY DEF ShownOnce
  <2>1. /\ TypeOK /\ Paired /\ Prefix /\ Position
        /\ DOMAIN shownFor = 1 .. Len(shownFor) /\ Len(shownFor) \in Nat
        /\ \A i \in DOMAIN shownFor : shownFor[i] \in Int
    BY DEF IInv, Kept, TypeOK, Call
  <2>2. ASSUME NEW i \in DOMAIN shownFor, NEW j \in DOMAIN shownFor, shownFor[i] = shownFor[j]
        PROVE  i = j
    <3>1. ~(i < j) /\ ~(j < i)
      BY <2>1, <2>2 DEF Prefix
    <3> QED
      BY <2>1, <3>1
  <2>3. ASSUME step = "parked", NEW i \in DOMAIN shownFor PROVE shownFor[i] # at
    <3>1. i \in 1 .. asked
      BY <2>1, <2>3 DEF Paired, TypeOK
    <3>2. shownFor[i] < at
      BY <2>3, <3>1, <2>1 DEF Position
    <3> QED
      BY <3>2, <2>1 DEF TypeOK
  <2> QED
    BY <2>2, <2>3
<1>2. TypeOK => Pace <= 4 * Count + 7
  <2> SUFFICES ASSUME TypeOK PROVE Pace <= 4 * Count + 7
    OBVIOUS
  <2>1. StepRank(step) \in 0 .. 3 /\ at \in Int /\ at <= Count + 1
    BY DEF StepRank, TypeOK
  <2> QED
    BY <2>1 DEF Pace
<1>3. TypeOK /\ [Next]_vars => [NodeStep => Pace' > Pace]_vars
  <2> SUFFICES ASSUME TypeOK, NodeStep PROVE Pace' > Pace
    OBVIOUS
  <2>0. at \in Int
    BY DEF TypeOK
  <2>1. CASE \/ Reject \/ DispatchAsks \/ CapabilityDenied \/ DispatchRaises
             \/ RedispatchBlocked \/ InterruptParks \/ Finish
    BY <2>0, <2>1 DEF Pace, StepRank, Reject, DispatchAsks, CapabilityDenied, DispatchRaises,
                      RedispatchBlocked, InterruptParks, Finish, Append1
  <2>2. CASE DispatchRuns \/ RedispatchRuns
    BY <2>0, <2>2 DEF Pace, StepRank, DispatchRuns, RedispatchRuns, Execute, Append1
  <2>3. CASE InterruptReplays \/ InterruptReturns
    <3>1. PICK value : step = "gate" /\ Use(value)
      BY <2>3 DEF InterruptReplays, InterruptReturns
    <3> QED
      BY <2>0, <3>1 DEF Pace, StepRank, Use, Append1
  <2> QED
    BY <2>1, <2>2, <2>3 DEF NodeStep
<1>4. IInv => TypeOK
  BY DEF IInv
<1> QED
  BY Invariance, <1>1, <1>2, <1>3, <1>4, PTL DEF Spec

-----------------------------------------------------------------------------
(* The answers of the user after which the node ran again from its start   *)
(* although it had passed call c.                                          *)
RepeatsOf(c) == {i \in 1 .. Len(shownFor) : shownFor[i] > c}

RunsRepeat ==
    \A c \in Call : runs[c] <= Cardinality(RepeatsOf(c)) + (IF c < at THEN 1 ELSE 0)

(* There are only so many answers.                                        *)
LEMMA RepeatsAreFinite ==
    TypeOK => \A c \in Call : IsFiniteSet(RepeatsOf(c)) /\ Cardinality(RepeatsOf(c)) \in Nat
<1> SUFFICES ASSUME TypeOK, NEW c \in Call
             PROVE  IsFiniteSet(RepeatsOf(c)) /\ Cardinality(RepeatsOf(c)) \in Nat
  OBVIOUS
<1>1. Len(shownFor) \in Nat
  BY DEF TypeOK
<1>2. IsFiniteSet(1 .. Len(shownFor))
  BY <1>1, FS_Interval
<1>3. RepeatsOf(c) \in SUBSET (1 .. Len(shownFor))
  BY DEF RepeatsOf
<1>4. IsFiniteSet(RepeatsOf(c))
  BY <1>2, <1>3, FS_Subset
<1> QED
  BY <1>4, FS_CardinalityType

(* An answer repeats the calls before the one it was given for.            *)
LEMMA ResumeRepeats ==
    ASSUME TypeOK, RunsRepeat, NEW value \in Value, Resume(value)
    PROVE  RunsRepeat'
<1> USE CountAssumption
<1> DEFINE n == Len(shownFor)
<1>1. /\ n \in Nat /\ Len(shownFor') = n + 1 /\ shownFor'[n + 1] = at
      /\ \A i \in 1 .. n : shownFor'[i] = shownFor[i]
      /\ at' = 1 /\ runs' = runs /\ at \in Int /\ runs \in [Call -> Nat]
  BY DEF TypeOK, Resume
<1> HIDE DEF n
<1>2. \A c \in Call :
        RepeatsOf(c)' = IF at > c THEN RepeatsOf(c) \cup {n + 1} ELSE RepeatsOf(c)
  <2> SUFFICES ASSUME NEW c \in Call
               PROVE  RepeatsOf(c)' = IF at > c THEN RepeatsOf(c) \cup {n + 1} ELSE RepeatsOf(c)
    OBVIOUS
  <2>1. RepeatsOf(c)' = {i \in 1 .. n + 1 : shownFor'[i] > c}
    BY <1>1 DEF RepeatsOf
  <2>2. RepeatsOf(c) = {i \in 1 .. n : shownFor'[i] > c}
    BY <1>1 DEF RepeatsOf, n
  <2>3. 1 .. n + 1 = 1 .. n \cup {n + 1}
    BY <1>1
  <2> QED
    BY <1>1, <2>1, <2>2, <2>3
<1>3. \A c \in Call : n + 1 \notin RepeatsOf(c)
  BY <1>1 DEF RepeatsOf, n
<1>4. ASSUME NEW c \in Call
      PROVE  Cardinality(RepeatsOf(c)') = Cardinality(RepeatsOf(c)) + (IF c < at THEN 1 ELSE 0)
  <2>0. c \in Int /\ (at > c <=> c < at)
    BY <1>1 DEF Call
  <2>1. IsFiniteSet(RepeatsOf(c)) /\ Cardinality(RepeatsOf(c)) \in Nat
    BY RepeatsAreFinite
  <2>2. Cardinality(RepeatsOf(c) \cup {n + 1}) = Cardinality(RepeatsOf(c)) + 1
    BY <1>3, <2>1, FS_AddElement
  <2> QED
    BY <1>2, <2>0, <2>1, <2>2
<1>5. ASSUME NEW c \in Call
      PROVE  runs'[c] <= Cardinality(RepeatsOf(c)') + (IF c < at' THEN 1 ELSE 0)
  <2>1. c \in Int /\ ~(c < at') /\ Cardinality(RepeatsOf(c)) \in Nat
    BY <1>1, RepeatsAreFinite DEF Call
  <2>2. runs[c] <= Cardinality(RepeatsOf(c)) + (IF c < at THEN 1 ELSE 0)
    BY DEF RunsRepeat
  <2> QED
    BY <1>1, <1>4, <2>1, <2>2
<1> QED
  BY <1>5 DEF RunsRepeat

(* One run of the code runs a call at most once.                           *)
LEMMA PassRepeats ==
    ASSUME TypeOK, RunsRepeat, NodeStep \/ (\E c \in Call : ToggleCapability(c)) \/ UNCHANGED vars
    PROVE  RunsRepeat'
<1> USE CountAssumption
<1>1. \A c \in Call : RepeatsOf(c)' = RepeatsOf(c) /\ Cardinality(RepeatsOf(c)) \in Nat
  <2>1. shownFor' = shownFor
    BY DEF NodeStep, Reject, DispatchAsks, CapabilityDenied, DispatchRaises, DispatchRuns, RedispatchRuns, Execute,
           RedispatchBlocked, InterruptReplays, InterruptReturns, InterruptParks, Finish,
           ToggleCapability, checkpoint, vars
  <2> QED
    BY <2>1, RepeatsAreFinite DEF RepeatsOf
<1>2. \/ runs' = runs /\ at' = at
      \/ runs' = runs /\ at' = at + 1
      \/ runs' = [runs EXCEPT ![at] = @ + 1] /\ at' = at + 1 /\ at \in Call
  <2>1. CASE DispatchRuns \/ RedispatchRuns
    BY <2>1 DEF DispatchRuns, RedispatchRuns, Execute, Append1
  <2>2. CASE InterruptReplays \/ InterruptReturns
    <3>1. runs' = runs /\ \E v : Use(v)
      BY <2>2 DEF InterruptReplays, InterruptReturns, history
    <3> QED
      BY <3>1 DEF Use, Append1
  <2>3. CASE UNCHANGED <<runs, at>>
    BY <2>3
  <2>4. CASE Reject \/ CapabilityDenied \/ DispatchRaises \/ RedispatchBlocked
    BY <2>4 DEF Reject, CapabilityDenied, DispatchRaises, RedispatchBlocked, Append1, history
  <2> QED
    BY <2>1, <2>2, <2>3, <2>4
       DEF NodeStep, DispatchAsks, InterruptParks, Finish, ToggleCapability, history, code, vars
<1>3. ASSUME NEW c \in Call
      PROVE  runs'[c] <= Cardinality(RepeatsOf(c)') + (IF c < at' THEN 1 ELSE 0)
  <2> DEFINE repeats == Cardinality(RepeatsOf(c))
  <2>1. /\ c \in Int /\ at \in Int /\ runs \in [Call -> Nat] /\ repeats \in Nat
        /\ Cardinality(RepeatsOf(c)') = repeats
        /\ runs[c] <= repeats + (IF c < at THEN 1 ELSE 0)
    BY <1>1 DEF TypeOK, RunsRepeat, Call
  <2> HIDE DEF repeats
  <2>2. \/ runs'[c] = runs[c] /\ (c < at => c < at')
        \/ c = at /\ runs'[c] = runs[c] + 1 /\ at' = at + 1
    BY <1>2, <2>1
  <2> QED
    BY <2>1, <2>2
<1> QED
  BY <1>3 DEF RunsRepeat

(* A call runs once, and once more for each answer the user gave to a      *)
(* later call, whatever is revoked or fails between: replay repeats only   *)
(* what stands before an interrupt, and a list whose calls nobody has to   *)
(* decide runs each of them once at most (tool_node under LangGraph's      *)
(* replay).                                                                *)
THEOREM ReplayIsBounded == Spec => []RunsRepeat
<1>1. Init => RunsRepeat
  <2> SUFFICES ASSUME Init, NEW c \in Call
               PROVE  runs[c] <= Cardinality(RepeatsOf(c)) + (IF c < at THEN 1 ELSE 0)
    BY DEF RunsRepeat
  <2>1. RepeatsOf(c) = {} /\ runs[c] = 0 /\ ~(c < at)
    BY DEF Init, RepeatsOf, Call
  <2> QED
    BY <2>1, FS_EmptySet
<1>2. TypeOK /\ RunsRepeat /\ [Next]_vars => RunsRepeat'
  BY ResumeRepeats, PassRepeats DEF Next
<1> QED
  BY <1>1, <1>2, TypeCorrect, PTL DEF Spec
=============================================================================
