-------------------------- MODULE SecurityValidator --------------------------
(***************************************************************************)
(* SecurityValidator of internal/diagnostics/security_validator.go: the    *)
(* allow and deny lists, test mode and the audit log.  Submit of the       *)
(* worker pool calls ValidateCheck from any goroutine; it takes the lock   *)
(* for each rule that reads a list and once more to log, so the lists and  *)
(* the mode may change between its steps.                                  *)
(*                                                                         *)
(* A check stands for its name; the constants say what the string tests    *)
(* find in it.                                                             *)
(***************************************************************************)
EXTENDS Integers, Sequences, FiniteSets

CONSTANTS
    Callers,            \* goroutines in ValidateCheck
    Checks,             \* checks that may be validated or listed
    Registered,         \* the names initializeAllowedChecks lists
    WellFormed,         \* checks validateCheckName accepts
    TestNamed,          \* checks isTestCheckName accepts
    BadDescription, BadSeverity,    \* checks that fail the two lesser rules
    maxHistorySize,
    MaxEdits            \* bound on changes of the lists, the mode and the log

ASSUME ValidatorAssumption ==
    /\ UNION {Registered, WellFormed, TestNamed, BadDescription, BadSeverity}
         \subseteq Checks
    /\ Registered \subseteq WellFormed /\ Checks # {}
    /\ maxHistorySize \in Nat \ {0} /\ MaxEdits \in Nat

VARIABLES
    allowedChecks, deniedChecks, testMode,
    checkHistory,       \* audit log, as <<check, Allowed>>
    pc, check,          \* each caller's place in ValidateCheck, and its check
    witness,            \* what the policy said of its check since the call began
    edits               \* changes so far

listVars == <<allowedChecks, deniedChecks, testMode>>
callVars == <<pc, check, witness>>
vars == <<listVars, checkHistory, callVars, edits>>

Rules == {"allowlist", "denylist", "description", "severity"}

(* The string tests, by what they find in a name.                          *)
isTestCheckName(k) == k \in TestNamed
validCheckName(k) == k \in WellFormed

-----------------------------------------------------------------------------
(* What ValidateCheck decides if nothing interferes: the policy in force.  *)
Policy(k) ==
    IF \/ testMode /\ isTestCheckName(k)
       \/ validCheckName(k) /\ k \in allowedChecks
    THEN "admit" ELSE "refuse"

(* A call sees the policy when it begins and after every change; it also   *)
(* remembers that the mode was switched under it.                          *)
Witnessed(switched) ==
    witness' = [c \in Callers |->
        IF pc[c] = "idle" THEN {}
        ELSE witness[c] \cup {Policy(check[c])'} \cup (IF switched THEN {"switched"} ELSE {})]

logValidationLocked(k, allowed) ==
    LET log == Append(checkHistory, <<k, allowed>>)
    IN  checkHistory' = IF Len(log) > maxHistorySize
                        THEN SubSeq(log, Len(log) - maxHistorySize + 1, Len(log))
                        ELSE log

Init ==
    /\ allowedChecks = Registered /\ deniedChecks = {}
    /\ testMode \in BOOLEAN
    /\ checkHistory = <<>>
    /\ pc = [c \in Callers |-> "idle"]
    /\ check \in [Callers -> Checks]
    /\ witness = [c \in Callers |-> {}]
    /\ edits = 0

-----------------------------------------------------------------------------
GoTo(c, place) == pc' = [pc EXCEPT ![c] = place]

(* ValidateCheck up to its first rule that reads a list.  In test mode a   *)
(* test check is admitted before any rule.                                 *)
ValidateCheck(c, k) ==
    /\ pc[c] = "idle"
    /\ check' = [check EXCEPT ![c] = k]
    /\ witness' = [witness EXCEPT ![c] = {Policy(k)}]
    /\ GoTo(c, IF testMode /\ isTestCheckName(k) THEN "admit"
               ELSE IF ~validCheckName(k) THEN "refuse" ELSE "allowlist")
    /\ UNCHANGED <<listVars, checkHistory, edits>>

(* Seeded fault: in test mode the rule is skipped for every check.         *)
FaultTestModeSkipsAll(c) ==
    /\ pc[c] = "allowlist"
    /\ GoTo(c, IF testMode \/ check[c] \in allowedChecks THEN "denylist" ELSE "refuse")
    /\ UNCHANGED <<listVars, checkHistory, check, witness, edits>>

validateAllowlist(c) ==
    /\ pc[c] = "allowlist"
    /\ GoTo(c, IF (testMode /\ isTestCheckName(check[c])) \/ check[c] \in allowedChecks
               THEN "denylist" ELSE "refuse")
    /\ UNCHANGED <<listVars, checkHistory, check, witness, edits>>

validateDenylist(c) ==
    /\ pc[c] = "denylist"
    /\ GoTo(c, IF check[c] \in deniedChecks THEN "refuse" ELSE "description")
    /\ UNCHANGED <<listVars, checkHistory, check, witness, edits>>

(* The lesser rules log a denial and go on.                                *)
validateDescription(c) ==
    /\ pc[c] = "description"
    /\ IF check[c] \in BadDescription THEN logValidationLocked(check[c], FALSE)
       ELSE UNCHANGED checkHistory
    /\ GoTo(c, "severity")
    /\ UNCHANGED <<listVars, check, witness, edits>>

validateSeverity(c) ==
    /\ pc[c] = "severity"
    /\ IF check[c] \in BadSeverity THEN logValidationLocked(check[c], FALSE)
       ELSE UNCHANGED checkHistory
    /\ GoTo(c, "admit")
    /\ UNCHANGED <<listVars, check, witness, edits>>

(* The verdict is logged and returned.                                     *)
logValidation(c) ==
    /\ pc[c] \in {"admit", "refuse"}
    /\ logValidationLocked(check[c], pc[c] = "admit")
    /\ GoTo(c, "idle")
    /\ witness' = [witness EXCEPT ![c] = {}]
    /\ UNCHANGED <<listVars, check, edits>>

-----------------------------------------------------------------------------
Edit ==
    /\ edits < MaxEdits
    /\ edits' = edits + 1
    /\ UNCHANGED <<pc, check>>

(* Seeded fault: the check stays on the denylist.                          *)
FaultKeepsDenial(k) ==
    /\ Edit /\ validCheckName(k)
    /\ allowedChecks' = allowedChecks \cup {k}
    /\ logValidationLocked(k, TRUE)
    /\ UNCHANGED <<deniedChecks, testMode>>
    /\ Witnessed(FALSE)

(* An ill-formed name is an error and changes nothing.                     *)
AddToAllowlist(k) ==
    /\ Edit /\ validCheckName(k)
    /\ allowedChecks' = allowedChecks \cup {k}
    /\ deniedChecks' = deniedChecks \ {k}
    /\ logValidationLocked(k, TRUE)
    /\ UNCHANGED testMode
    /\ Witnessed(FALSE)

AddToDenylist(k) ==
    /\ Edit /\ validCheckName(k)
    /\ deniedChecks' = deniedChecks \cup {k}
    /\ allowedChecks' = allowedChecks \ {k}
    /\ logValidationLocked(k, FALSE)
    /\ UNCHANGED testMode
    /\ Witnessed(FALSE)

SetTestMode ==
    /\ Edit
    /\ testMode' = ~testMode
    /\ UNCHANGED <<allowedChecks, deniedChecks, checkHistory>>
    /\ Witnessed(TRUE)

ResetAuditLog ==
    /\ Edit
    /\ checkHistory' = <<>>
    /\ UNCHANGED <<listVars, witness>>

Next ==
    \/ \E c \in Callers, k \in Checks : ValidateCheck(c, k)
    \/ \E c \in Callers :
          \/ validateAllowlist(c) \/ validateDenylist(c) \/ validateDescription(c)
          \/ validateSeverity(c) \/ logValidation(c)
    \/ \E k \in Checks : AddToAllowlist(k) \/ AddToDenylist(k)
    \/ SetTestMode \/ ResetAuditLog

Spec == Init /\ [][Next]_vars

-----------------------------------------------------------------------------
(* Whatever the order of edits, no check is on both lists, the lists hold  *)
(* well-formed names only, the audit log keeps its limit, and every        *)
(* variable has its type.                                                  *)
ListsConsistent ==
    /\ allowedChecks \subseteq WellFormed /\ deniedChecks \subseteq WellFormed
    /\ allowedChecks \cap deniedChecks = {}
    /\ testMode \in BOOLEAN
    /\ checkHistory \in Seq(Checks \X BOOLEAN) /\ Len(checkHistory) <= maxHistorySize
    /\ pc \in [Callers -> Rules \cup {"idle", "admit", "refuse"}]
    /\ check \in [Callers -> Checks]
    /\ witness \in [Callers -> SUBSET {"admit", "refuse", "switched"}]
    /\ edits \in 0 .. MaxEdits

(* A verdict agrees with the policy at some moment of the call, although   *)
(* the two lists are read in separate steps and edited in between: a check *)
(* denied throughout a call is never admitted, one allowed throughout is   *)
(* never refused.  Switching test mode under a call voids the promise.     *)
VerdictJustified ==
    \A c \in Callers :
        pc[c] \in {"admit", "refuse"} /\ "switched" \notin witness[c] => pc[c] \in witness[c]
=============================================================================
