--------------------------- MODULE ActionContract ---------------------------
(***************************************************************************)
(* What agent/action_contract.py and the checks of PolicyBroker that look  *)
(* at one action alone decide (agent/broker.py).  The broker is built from *)
(* two files, the frozen action schema and the action catalog, which are   *)
(* edited or damaged between releases; an action reaches it as a mapping   *)
(* (decide, through proposed_action_from_dict) or as an object built in    *)
(* Python (evaluate).  Each field's value is abstracted to how it fares    *)
(* with the rules.  The checks on shared state are those of AgentBroker.   *)
(***************************************************************************)
EXTENDS Naturals, FiniteSets

CONSTANTS
    MaxLoosened,   \* bound: fields taken out of the schema's required list
    MaxFaults      \* bound: fields of a submitted action that do not conform

VARIABLES
    required,      \* the required list in the schema file
    damaged,       \* the schema or the catalog file no longer loads
    contract,      \* NoContract, or the required list of the loaded schema
    submitted,     \* the action submitted: its door and its fields' values
    verdict

decisionVars == <<required, damaged, contract, submitted, verdict>>

Fields == {"session_id", "tab_id", "document_generation", "origin", "method",
           "canonical_parameters", "scope", "expires_at", "nonce", "policy_version"}

NoContract == [loaded |-> FALSE, required |-> {}]

(* How a value fares: `mistyped` is of another type (a bool for an integer *)
(* passes comparisons), `malformed` is a string outside pattern or enum, a *)
(* negative integer, a scope or version that is not the catalog's, an      *)
(* expiry that is past, too far or no date.                                *)
Values == {"absent", "none", "mistyped", "empty", "malformed", "conforming"}

MinLength == {"session_id", "tab_id", "scope", "nonce", "policy_version"}
Ranged == {"origin", "method", "document_generation"}   \* pattern, enum, minimum
HasDefault == {"session_id", "expires_at", "canonical_parameters", "policy_version"}

ValuesOf(f) ==
    Values \ ((IF f \in Ranged \cup {"scope", "expires_at", "policy_version"}
               THEN {} ELSE {"malformed"})
              \cup (IF f = "document_generation" THEN {"empty"} ELSE {}))

(* field_violation: type, minLength, pattern, enum, minimum.               *)
FieldViolation(f, v) ==
    \/ v = "mistyped"
    \/ v = "empty" /\ f \in MinLength \cup Ranged
    \/ v = "malformed" /\ f \in Ranged

\* The fields judged are those the schema requires.
RequiredOnly(schema) == schema.required

(* constrained_fields are kept apart from the required list; every         *)
(* property of the schema declares a type, so all of them are constrained. *)
FieldsJudged(schema) == schema.required \cup Fields

(* ActionContract.violation.                                               *)
Violates(schema, a) ==
    \E f \in FieldsJudged(schema) :
        IF a[f] \in {"absent", "none"} THEN f \in schema.required
        ELSE FieldViolation(f, a[f])

(* proposed_action_from_dict refuses a mapping without a mandatory key and *)
(* a value of another type (None too where the field has no default); the  *)
(* constructor a call without an argument that has no default.             *)
Constructible(schema, door, a) ==
    IF door = "mapping"
    THEN /\ \A f \in (Fields \ HasDefault) \cup schema.required : a[f] # "absent"
         /\ \A f \in Fields : a[f] # "mistyped"
         /\ \A f \in Fields \ HasDefault : a[f] # "none"
    ELSE \A f \in Fields \ HasDefault : a[f] # "absent"

Missing(v) == v \in {"absent", "none"}

(* evaluate, the checks before those on shared state and the contract.     *)
DeniedBefore(a) ==
    \/ Missing(a.session_id) \/ a.session_id = "empty"
    \/ ~Missing(a.expires_at) /\ a.expires_at # "conforming"
    \/ ~Missing(a.policy_version) /\ a.policy_version # "conforming"
    \/ a.scope # "conforming"
    \/ a.document_generation \in {"absent", "none", "malformed"}
    \/ Missing(a.canonical_parameters)

Decided(schema, door, a) ==
    IF ~Constructible(schema, door, a) THEN "deny_payload"
    ELSE IF DeniedBefore(a) THEN "deny"
    ELSE IF Violates(schema, a) THEN "deny_schema"
    ELSE "allow"

NoAction == [door |-> "none", fields |-> [f \in Fields |-> "conforming"]]

ContractInit ==
    /\ required = Fields /\ damaged = FALSE /\ contract = NoContract
    /\ submitted = NoAction /\ verdict = "none"

(* The schema file is edited: a field is no longer required, its rules are *)
(* left in place.                                                          *)
Loosen(f) ==
    /\ ~contract.loaded /\ f \in required
    /\ Cardinality(Fields \ required) < MaxLoosened
    /\ required' = required \ {f}
    /\ UNCHANGED <<damaged, contract, submitted, verdict>>

(* No JSON, no required list, no origin pattern or method enum; a catalog  *)
(* without default_deny, version, pairing or positive budgets.             *)
DamageContract ==
    /\ ~contract.loaded /\ ~damaged /\ damaged' = TRUE
    /\ UNCHANGED <<required, contract, submitted, verdict>>

(* Import of the modules: load_action_schema and load_catalog raise on a   *)
(* damaged file and there is no broker.                                    *)
LoadContract ==
    /\ ~contract.loaded /\ ~damaged
    /\ contract' = [loaded |-> TRUE, required |-> required]
    /\ UNCHANGED <<required, damaged, submitted, verdict>>

Submit ==
    /\ contract.loaded /\ submitted = NoAction
    /\ \E door \in {"mapping", "object"} : submitted' = [NoAction EXCEPT !.door = door]
    /\ UNCHANGED <<required, damaged, contract, verdict>>

Spoil(f) ==
    /\ submitted.door # "none" /\ verdict = "none"
    /\ submitted.fields[f] = "conforming"
    /\ Cardinality({g \in Fields : submitted.fields[g] # "conforming"}) < MaxFaults
    /\ \E v \in ValuesOf(f) \ {"conforming"} :
         submitted' = [submitted EXCEPT !.fields[f] = v]
    /\ UNCHANGED <<required, damaged, contract, verdict>>

Decide ==
    /\ submitted.door # "none" /\ verdict = "none"
    /\ verdict' = Decided(contract, submitted.door, submitted.fields)
    /\ UNCHANGED <<required, damaged, contract, submitted>>

NextAction ==
    /\ verdict # "none" /\ submitted' = NoAction /\ verdict' = "none"
    /\ UNCHANGED <<required, damaged, contract>>

ContractNext ==
    \/ \E f \in Fields : Loosen(f) \/ Spoil(f)
    \/ DamageContract \/ LoadContract \/ Submit \/ Decide \/ NextAction

ContractSpec == ContractInit /\ [][ContractNext]_decisionVars

---------------------------------------------------------------------------
ContractTypeOK ==
    /\ required \subseteq Fields /\ damaged \in BOOLEAN
    /\ contract \in [loaded : BOOLEAN, required : SUBSET Fields]
    /\ submitted \in [door : {"none", "mapping", "object"}, fields : [Fields -> Values]]
    /\ verdict \in {"none", "allow", "deny", "deny_schema", "deny_payload"}

(* Through either door, an allowed action has no value its field's rules   *)
(* refuse, also when the schema was loosened: taking a field out of the    *)
(* required list makes it omissible, never its rules (R8-PY-03).  And what *)
(* the schema still requires, and a session, a scope, a generation and     *)
(* parameters in any case, an allowed action has.                          *)
DefectsAreDenied ==
    verdict = "allow" =>
        /\ ~damaged
        /\ \A f \in Fields :
             LET v == submitted.fields[f] IN
             \/ v = "conforming"
             \/ v = "empty" /\ f = "canonical_parameters"
             \/ /\ Missing(v) /\ f \notin contract.required
                /\ f \notin {"session_id", "scope", "document_generation",
                             "canonical_parameters"}
============================================================================
