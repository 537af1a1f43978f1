---------------------- MODULE SecurityValidatorProofs ----------------------
(***************************************************************************)
(* Safety of the security validator for any number of concurrent calls,    *)
(* any sets of checks and any size of the audit log: the lists stay        *)
(* consistent, and a verdict agrees with the policy of some moment of the  *)
(* call although the lists are read in separate steps.                     *)
(***************************************************************************)
EXTENDS SecurityValidator, SequenceTheorems, TLAPS

(* A call under way has witnessed the policy in force.  If the mode was    *)
(* not switched under it, then a call among the rules is about a check     *)
(* that only the lists decide on, one past the allowlist has been          *)
(* justified to admit, and a verdict has been justified.                   *)
Justified(c) ==
    /\ Policy(check[c]) \in witness[c]
    /\ "switched" \notin witness[c] =>
         /\ pc[c] \in Rules =>
              validCheckName(check[c]) /\ ~(testMode /\ isTestCheckName(check[c]))
         /\ pc[c] \in {"denylist", "description", "severity"} => "admit" \in witness[c]
         /\ pc[c] \in {"admit", "refuse"} => pc[c] \in witness[c]

CallsJustified == \A c \in Callers : pc[c] # "idle" => Justified(c)

(* The inductive invariant.                                                *)
IInv == ListsConsistent /\ CallsJustified

Places == Rules \cup {"idle", "admit", "refuse"}

-----------------------------------------------------------------------------
(* Appending to the audit log drops what exceeds its limit.                *)
LEMMA LogBounded ==
    ASSUME checkHistory \in Seq(Checks \X BOOLEAN), Len(checkHistory) <= maxHistorySize,
           NEW k \in Checks, NEW allowed \in BOOLEAN, logValidationLocked(k, allowed)
    PROVE  /\ checkHistory' \in Seq(Checks \X BOOLEAN)
           /\ Len(checkHistory') <= maxHistorySize
<1> DEFINE log == Append(checkHistory, <<k, allowed>>)
<1>1. <<k, allowed>> \in Checks \X BOOLEAN
  OBVIOUS
<1>2. log \in Seq(Checks \X BOOLEAN) /\ Len(log) = Len(checkHistory) + 1
  BY <1>1, AppendProperties
<1>3. maxHistorySize \in Nat \ {0}
  BY ValidatorAssumption
<1>4. CASE Len(log) > maxHistorySize
  <2>1. checkHistory' = SubSeq(log, Len(log) - maxHistorySize + 1, Len(log))
    BY <1>4 DEF logValidationLocked
  <2>2. Len(log) \in Nat /\ Len(log) - maxHistorySize + 1 \in 1 .. Len(log)
    BY <1>2, <1>3, <1>4, LenProperties
  <2>3. \A i \in Len(log) - maxHistorySize + 1 .. Len(log) : log[i] \in Checks \X BOOLEAN
    BY <1>2, <2>2, ElementOfSeq
  <2> HIDE DEF log
  <2> QED
    BY <1>2, <1>3, <2>1, <2>2, <2>3, SubSeqProperties
<1>5. CASE ~(Len(log) > maxHistorySize)
  <2>1. checkHistory' = log
    BY <1>5 DEF logValidationLocked
  <2> QED
    BY <1>2, <1>3, <1>5, <2>1, LenProperties
<1> QED
  BY <1>4, <1>5

(* What an edit of the lists or of the mode adds to the witnesses.         *)
LEMMA WitnessTyped ==
    ASSUME witness \in [Callers -> SUBSET {"admit", "refuse", "switched"}],
           NEW switched \in BOOLEAN, Witnessed(switched)
    PROVE  /\ witness' \in [Callers -> SUBSET {"admit", "refuse", "switched"}]
           /\ \A c \in Callers : pc[c] # "idle" =>
                /\ Policy(check[c])' \in witness'[c]
                /\ witness[c] \subseteq witness'[c]
                /\ switched => "switched" \in witness'[c]
<1>1. \A c \in Callers : Policy(check[c])' \in {"admit", "refuse"}
  BY DEF Policy
<1> QED
  BY <1>1 DEF Witnessed

-----------------------------------------------------------------------------
LEMMA InitIInv == Init => IInv
  BY ValidatorAssumption, EmptySeq DEF Init, IInv, ListsConsistent, CallsJustified, validCheckName

(* A step of a call keeps the lists consistent.                            *)
LEMMA CallKeepsLists ==
    ASSUME IInv, NEW c \in Callers,
           \/ \E k \in Checks : ValidateCheck(c, k)
           \/ validateAllowlist(c) \/ validateDenylist(c) \/ validateDescription(c)
           \/ validateSeverity(c) \/ logValidation(c)
    PROVE  ListsConsistent'
<1>1. CASE \E k \in Checks : ValidateCheck(c, k)
  <2> PICK k \in Checks : ValidateCheck(c, k)
    BY <1>1
  <2>1. Policy(k) \in {"admit", "refuse"}
    BY DEF Policy
  <2> QED
    BY <2>1 DEF ValidateCheck, IInv, ListsConsistent, listVars, GoTo, Rules
<1>2. CASE validateAllowlist(c)
  BY <1>2 DEF validateAllowlist, IInv, ListsConsistent, listVars, GoTo, Rules
<1>3. CASE validateDenylist(c)
  BY <1>3 DEF validateDenylist, IInv, ListsConsistent, listVars, GoTo, Rules
<1>4. CASE validateDescription(c)
  <2>1. checkHistory' \in Seq(Checks \X BOOLEAN) /\ Len(checkHistory') <= maxHistorySize
    BY <1>4, LogBounded DEF validateDescription, IInv, ListsConsistent
  <2> QED
    BY <1>4, <2>1 DEF validateDescription, IInv, ListsConsistent, listVars, GoTo, Rules
<1>5. CASE validateSeverity(c)
  <2>1. checkHistory' \in Seq(Checks \X BOOLEAN) /\ Len(checkHistory') <= maxHistorySize
    BY <1>5, LogBounded DEF validateSeverity, IInv, ListsConsistent
  <2> QED
    BY <1>5, <2>1 DEF validateSeverity, IInv, ListsConsistent, listVars, GoTo, Rules
<1>6. CASE logValidation(c)
  <2>1. checkHistory' \in Seq(Checks \X BOOLEAN) /\ Len(checkHistory') <= maxHistorySize
    <3>1. check[c] \in Checks /\ (pc[c] = "admit") \in BOOLEAN
      BY DEF IInv, ListsConsistent
    <3> QED
      BY <1>6, <3>1, LogBounded DEF logValidation, IInv, ListsConsistent
  <2> QED
    BY <1>6, <2>1 DEF logValidation, IInv, ListsConsistent, listVars, GoTo, Rules
<1> QED
  BY <1>1, <1>2, <1>3, <1>4, <1>5, <1>6

(* A step of a call keeps every call justified.                            *)
LEMMA CallKeepsJustified ==
    ASSUME IInv, NEW c \in Callers,
           \/ \E k \in Checks : ValidateCheck(c, k)
           \/ validateAllowlist(c) \/ validateDenylist(c) \/ validateDescription(c)
           \/ validateSeverity(c) \/ logValidation(c)
    PROVE  CallsJustified'
<1> SUFFICES ASSUME NEW d \in Callers, pc'[d] # "idle"
             PROVE  Justified(d)'
  BY DEF CallsJustified
<1> USE DEF IInv, ListsConsistent, GoTo, listVars
<1>1. UNCHANGED listVars
  BY DEF ValidateCheck, validateAllowlist, validateDenylist, validateDescription,
         validateSeverity, logValidation
<1>2. CASE d # c
  <2>1. pc'[d] = pc[d] /\ check'[d] = check[d] /\ witness'[d] = witness[d]
    BY <1>2 DEF ValidateCheck, validateAllowlist, validateDenylist, validateDescription,
                validateSeverity, logValidation
  <2> QED
    BY <1>1, <2>1 DEF CallsJustified, Justified, Policy
<1>3. CASE d = c
  <2>1. CASE \E k \in Checks : ValidateCheck(c, k)
    <3> PICK k \in Checks : ValidateCheck(c, k)
      BY <2>1
    <3>1. check'[c] = k /\ witness'[c] = {Policy(k)} /\ Policy(k)' = Policy(k)
      BY <1>1 DEF ValidateCheck, Policy
    <3>2. pc'[c] = IF testMode /\ isTestCheckName(k) THEN "admit"
                   ELSE IF ~validCheckName(k) THEN "refuse" ELSE "allowlist"
      BY DEF ValidateCheck
    <3> QED
      BY <1>1, <1>3, <3>1, <3>2 DEF Justified, Policy, Rules
  <2>2. CASE validateAllowlist(c)
    BY <1>1, <1>3, <2>2 DEF validateAllowlist, CallsJustified, Justified, Policy, Rules
  <2>3. CASE validateDenylist(c)
    BY <1>1, <1>3, <2>3 DEF validateDenylist, CallsJustified, Justified, Policy, Rules
  <2>4. CASE validateDescription(c)
    BY <1>1, <1>3, <2>4 DEF validateDescription, CallsJustified, Justified, Policy, Rules
  <2>5. CASE validateSeverity(c)
    BY <1>1, <1>3, <2>5 DEF validateSeverity, CallsJustified, Justified, Policy, Rules
  <2>6. CASE logValidation(c)
    BY <1>3, <2>6 DEF logValidation
  <2> QED
    BY <2>1, <2>2, <2>3, <2>4, <2>5, <2>6
<1> QED
  BY <1>2, <1>3

(* An edit of a list, of the mode or of the log keeps the invariant.       *)
LEMMA EditKeepsIInv ==
    ASSUME IInv,
           \/ \E k \in Checks : AddToAllowlist(k) \/ AddToDenylist(k)
           \/ SetTestMode \/ ResetAuditLog
    PROVE  IInv'
<1>1. edits' \in 0 .. MaxEdits /\ UNCHANGED <<pc, check>>
  <2>1. Edit
    BY DEF AddToAllowlist, AddToDenylist, SetTestMode, ResetAuditLog
  <2>2. edits \in 0 .. MaxEdits /\ MaxEdits \in Nat
    BY ValidatorAssumption DEF IInv, ListsConsistent
  <2> QED
    BY <2>1, <2>2 DEF Edit
<1>2. ASSUME NEW switched \in BOOLEAN, Witnessed(switched), testMode' = testMode \/ switched
      PROVE  /\ witness' \in [Callers -> SUBSET {"admit", "refuse", "switched"}]
             /\ CallsJustified'
  <2>1. /\ witness' \in [Callers -> SUBSET {"admit", "refuse", "switched"}]
        /\ \A c \in Callers : pc[c] # "idle" =>
             /\ Policy(check[c])' \in witness'[c]
             /\ witness[c] \subseteq witness'[c]
             /\ switched => "switched" \in witness'[c]
    BY <1>2, WitnessTyped DEF IInv, ListsConsistent
  <2> SUFFICES ASSUME NEW c \in Callers, pc'[c] # "idle" PROVE Justified(c)'
    BY <2>1 DEF CallsJustified
  <2>2. pc'[c] = pc[c] /\ check'[c] = check[c] /\ pc[c] # "idle"
    BY <1>1
  <2>3. Justified(c)
    BY <2>2 DEF IInv, CallsJustified
  <2> QED
    BY <1>2, <2>1, <2>2, <2>3 DEF Justified, validCheckName, isTestCheckName
<1>3. CASE \E k \in Checks : AddToAllowlist(k)
  <2> PICK k \in Checks : AddToAllowlist(k)
    BY <1>3
  <2>1. checkHistory' \in Seq(Checks \X BOOLEAN) /\ Len(checkHistory') <= maxHistorySize
    BY LogBounded DEF AddToAllowlist, IInv, ListsConsistent
  <2>2. Witnessed(FALSE) /\ testMode' = testMode
    BY DEF AddToAllowlist
  <2> QED
    BY <1>1, <1>2, <2>1, <2>2 DEF AddToAllowlist, IInv, ListsConsistent, validCheckName
<1>4. CASE \E k \in Checks : AddToDenylist(k)
  <2> PICK k \in Checks : AddToDenylist(k)
    BY <1>4
  <2>1. checkHistory' \in Seq(Checks \X BOOLEAN) /\ Len(checkHistory') <= maxHistorySize
    BY LogBounded DEF AddToDenylist, IInv, ListsConsistent
  <2>2. Witnessed(FALSE) /\ testMode' = testMode
    BY DEF AddToDenylist
  <2> QED
    BY <1>1, <1>2, <2>1, <2>2 DEF AddToDenylist, IInv, ListsConsistent, validCheckName
<1>5. CASE SetTestMode
  <2>1. Witnessed(TRUE) /\ testMode' \in BOOLEAN
    BY <1>5 DEF SetTestMode
  <2> QED
    BY <1>1, <1>2, <1>5, <2>1 DEF SetTestMode, IInv, ListsConsistent
<1>6. CASE ResetAuditLog
  <2>1. checkHistory' \in Seq(Checks \X BOOLEAN) /\ Len(checkHistory') <= maxHistorySize
    BY <1>6, ValidatorAssumption, EmptySeq DEF ResetAuditLog
  <2>2. CallsJustified'
    BY <1>1, <1>6 DEF ResetAuditLog, IInv, CallsJustified, Justified, Policy, listVars
  <2> QED
    BY <1>1, <1>6, <2>1, <2>2 DEF ResetAuditLog, IInv, ListsConsistent, listVars
<1> QED
  BY <1>3, <1>4, <1>5, <1>6

(* Every step keeps the invariant.                                         *)
LEMMA NextIInv == IInv /\ [Next]_vars => IInv'
<1> SUFFICES ASSUME IInv, [Next]_vars PROVE IInv'
  OBVIOUS
<1>1. ASSUME NEW c \in Callers,
             \/ \E k \in Checks : ValidateCheck(c, k)
             \/ validateAllowlist(c) \/ validateDenylist(c) \/ validateDescription(c)
             \/ validateSeverity(c) \/ logValidation(c)
      PROVE  IInv'
  BY <1>1, CallKeepsLists, CallKeepsJustified DEF IInv
<1>2. CASE \/ \E k \in Checks : AddToAllowlist(k) \/ AddToDenylist(k)
           \/ SetTestMode \/ ResetAuditLog
  BY <1>2, EditKeepsIInv
<1>3. CASE UNCHANGED vars
  BY <1>3 DEF IInv, ListsConsistent, CallsJustified, Justified, Policy, vars, listVars, callVars
<1> QED
  BY <1>1, <1>2, <1>3 DEF Next

LEMMA Inductive == Spec => []IInv
  BY InitIInv, NextIInv, PTL DEF Spec

-----------------------------------------------------------------------------
(* No order of edits and validations puts a check on both lists, lists an  *)
(* ill-formed name or overruns the audit log (AddToAllowlist,              *)
(* AddToDenylist, logValidationLocked).                                    *)
THEOREM ListsAlwaysConsistent == Spec => []ListsConsistent
  BY Inductive, PTL DEF IInv

(* ValidateCheck, which takes the lock once per rule, admits or refuses a  *)
(* check only as the policy did at some moment of the call, unless test    *)
(* mode was switched under it.                                             *)
THEOREM VerdictsJustified == Spec => []VerdictJustified
<1>1. IInv => VerdictJustified
  BY DEF IInv, CallsJustified, Justified, VerdictJustified
<1> QED
  BY <1>1, Inductive, PTL
=============================================================================
