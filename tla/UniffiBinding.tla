--------------------------- MODULE UniffiBinding ---------------------------
(***************************************************************************)
(* The Python binding UniFFI generates for the policy core                 *)
(* (core/rust-policy-core/bindings/aegis_policy_core.py): who owns the     *)
(* memory that crosses the boundary.  A call checks its arguments, clones  *)
(* the broker's handle, lowers each argument to a RustBuffer, hands clone  *)
(* and buffers over to Rust, which consumes them, and lifts what comes     *)
(* back.  Several threads call one broker, which is collected when nothing *)
(* refers to it.  Contents are abstracted to what ownership depends on: an *)
(* argument that passes its check may still fail to encode (a str with a   *)
(* lone surrogate), and a buffer that comes back may fail to decode (a     *)
(* type whose fields differ in the library: on import the names and the    *)
(* contract version are compared, the comparison of checksums is commented *)
(* out).  The parameters of a function are taken to be those the binding   *)
(* declares: nothing checks it, and calling others is undefined.  The Rust *)
(* side is external: it consumes what it is handed and answers or panics.  *)
(***************************************************************************)
EXTENDS Naturals, FiniteSets, TLC

CONSTANTS
    Callers,        \* the threads that use the binding
    Operations,     \* the operations they call: of BrokerMethods and FreeFunctions
    MaxUnencodable  \* bound: calls with an argument that cannot be encoded

VARIABLES
    library,        \* [contract: version of the binding, exports: its functions,
                    \*  differs: types whose fields are others, loaded]
    liveBuffers,    \* RustBuffers allocated and not freed
    strong,         \* owners of the Rust broker: handles not freed
    broker,         \* the Python FfiBroker: none, used, or dropped (unreferenced)
    binding,        \* what each thread's call is doing and holds
    unencodable     \* calls that failed to encode an argument

bindingVars == <<library, liveBuffers, strong, broker, binding, unencodable>>

(* The records and enums and the types of their fields.                    *)
Records ==
    [FfiApprovalRequest |-> {}, FfiAuthorizedAction |-> {}, FfiCanonicalUrl |-> {},
     FfiDenyReason |-> {}, FfiOrigin |-> {}]
Enums ==
    [FfiDecision |-> {"FfiAuthorizedAction", "FfiApprovalRequest", "FfiDenyReason"},
     FfiProtectionMode |-> {}]
Types == Records @@ Enums

(* What each operation lowers and lifts: a method clones the handle; every *)
(* text (a str or a list of them) and every type becomes a RustBuffer,     *)
(* integers pass as they are; the answer is a plain value, the handle of a *)
(* new broker, or a buffer with a text or a type in it.                    *)
Op(method, texts, types, answer) ==
    [method |-> method, buffers |-> texts + Cardinality(types), answer |-> answer]

BrokerMethods ==
    [advance_document_generation     |-> Op(TRUE, 2, {}, "plain"),
     approve_navigation_confirmation |-> Op(TRUE, 3, {}, "FfiDecision"),
     consume_navigation              |-> Op(TRUE, 2, {"FfiAuthorizedAction"}, "FfiDecision"),
     create_session                  |-> Op(TRUE, 2, {}, "plain"),
     destroy_session                 |-> Op(TRUE, 1, {}, "plain"),
     evaluate_navigation             |-> Op(TRUE, 4, {}, "FfiDecision"),
     reject_navigation_confirmation  |-> Op(TRUE, 1, {}, "plain"),
     request_navigation_confirmation |-> Op(TRUE, 4, {}, "FfiDecision"),
     update_host_denylist            |-> Op(TRUE, 1, {}, "plain")]

FreeFunctions ==
    [FfiBroker                  |-> Op(FALSE, 1, {}, "handle"),
     build_fingerprint_pipeline |-> Op(FALSE, 1, {}, "text"),
     build_fingerprint_pipeline_with_mode |-> Op(FALSE, 2, {"FfiProtectionMode"}, "text"),
     canonicalize_external      |-> Op(FALSE, 1, {}, "FfiCanonicalUrl"),
     extract_host               |-> Op(FALSE, 1, {}, "text"),
     try_parse_external         |-> Op(FALSE, 1, {}, "FfiOrigin")]

Signature(op) ==
    IF op \in DOMAIN BrokerMethods THEN BrokerMethods[op] ELSE FreeFunctions[op]

ASSUME BindingAssumption ==
    /\ IsFiniteSet(Callers) /\ MaxUnencodable \in Nat
    /\ Operations \subseteq DOMAIN BrokerMethods \cup DOMAIN FreeFunctions

\* The functions looked up by name.
Declared ==
    DOMAIN BrokerMethods \cup DOMAIN FreeFunctions
      \cup {"rustbuffer_alloc", "rustbuffer_from_bytes", "rustbuffer_free",
            "rustbuffer_reserve", "uniffi_contract_version", "clone_ffibroker",
            "free_ffibroker"}

\* The libraries beside the binding.  A bound: at
\* most one function is missing, and at most one type differs.
Libraries ==
    [contract : BOOLEAN, loaded : {FALSE},
     exports : {Declared} \cup {Declared \ {f} : f \in Declared},
     differs : {{}} \cup {{type} : type \in DOMAIN Types}]

MayNotDecode(answer) ==
    answer \in DOMAIN Types /\ ({answer} \cup Types[answer]) \cap library.differs # {}

Stages == {"idle", "lowering", "building", "rust", "lifting"}
Idle == [stage |-> "idle", op |-> "FfiBroker", clone |-> FALSE, lowered |-> 0, lifts |-> "text"]

BindingInit ==
    /\ library \in Libraries
    /\ liveBuffers = 0 /\ strong = 0 /\ broker = "none"
    /\ binding = [t \in Callers |-> Idle]
    /\ unencodable = 0

(* Import: the library is loaded, every function is looked up by its name, *)
(* the contract version is compared; a mismatch raises and nothing can be  *)
(* called.                                                                 *)
Import ==
    /\ ~library.loaded /\ Declared \subseteq library.exports /\ library.contract
    /\ library' = [library EXCEPT !.loaded = TRUE]
    /\ UNCHANGED <<liveBuffers, strong, broker, binding, unencodable>>

(* A call begins when every check_lower has passed; a TypeError or a       *)
(* ValueError raised there leaves nothing behind.                          *)
Begin(t) ==
    /\ library.loaded /\ binding[t].stage = "idle"
    /\ \E op \in Operations :
         /\ Signature(op).method => broker = "used"
         /\ Signature(op).answer = "handle" =>
              /\ broker = "none"
              /\ \A u \in Callers : Signature(binding[u].op).answer = "handle"
                                      => binding[u].stage = "idle"
         /\ binding' = [binding EXCEPT ![t] = [Idle EXCEPT !.stage = "lowering", !.op = op]]
    /\ UNCHANGED <<library, liveBuffers, strong, broker, unencodable>>

\* The handle passed without a clone: the call consumes the object's own.
HandleItself(t) ==
    /\ binding[t].stage = "lowering" /\ Signature(binding[t].op).method /\ ~binding[t].clone
    /\ binding' = [binding EXCEPT ![t].clone = TRUE]
    /\ UNCHANGED <<library, liveBuffers, strong, broker, unencodable>>

(* _uniffi_clone_handle, the first argument of a method.                   *)
CloneHandle(t) ==
    /\ binding[t].stage = "lowering" /\ Signature(binding[t].op).method /\ ~binding[t].clone
    /\ strong' = strong + 1
    /\ binding' = [binding EXCEPT ![t].clone = TRUE]
    /\ UNCHANGED <<library, liveBuffers, broker, unencodable>>

(* The next argument's builder allocates its buffer.                       *)
Alloc(t) ==
    LET c == binding[t] IN
    /\ c.stage = "lowering" /\ c.lowered < Signature(c.op).buffers
    /\ c.clone = Signature(c.op).method
    /\ liveBuffers' = liveBuffers + 1
    /\ binding' = [binding EXCEPT ![t].stage = "building"]
    /\ UNCHANGED <<library, strong, broker, unencodable>>

(* Everything was written (a reserve takes one buffer and returns one) and *)
(* finalize hands the buffer over to the arguments.                        *)
Finalize(t) ==
    /\ binding[t].stage = "building"
    /\ binding' = [binding EXCEPT ![t].stage = "lowering", ![t].lowered = @ + 1]
    /\ UNCHANGED <<library, liveBuffers, strong, broker, unencodable>>

(* The argument does not encode: the builder discards its buffer and the   *)
(* exception leaves the call.  The clone and the buffers lowered before    *)
(* are in no structure that frees them.                                    *)
Discard(t) ==
    /\ binding[t].stage = "building" /\ unencodable < MaxUnencodable
    /\ liveBuffers' = liveBuffers - 1
    /\ binding' = [binding EXCEPT ![t] = Idle]
    /\ unencodable' = unencodable + 1
    /\ UNCHANGED <<library, strong, broker>>

(* _uniffi_rust_call_with_error: clone and arguments now belong to Rust.   *)
EnterRust(t) ==
    LET c == binding[t] IN
    /\ c.stage = "lowering" /\ c.lowered = Signature(c.op).buffers
    /\ c.clone = Signature(c.op).method
    /\ binding' = [binding EXCEPT ![t].stage = "rust"]
    /\ UNCHANGED <<library, liveBuffers, strong, broker, unencodable>>

(* Rust has consumed clone and arguments.  It answers, or panics with a    *)
(* message in a buffer or, when that panics too, with none.  No exported   *)
(* function returns a Result, so CALL_ERROR does not occur.  A constructor *)
(* that answers gives the new object its handle; one that panics leaves    *)
(* the instance without one, and __del__ has nothing to free.              *)
LeaveRust(t) ==
    LET c == binding[t]
        released == IF c.clone THEN 1 ELSE 0
        Answers(answer, made) ==
            LET buffer == IF answer \in {"plain", "handle", "none"} THEN 0 ELSE 1
            IN /\ liveBuffers' = liveBuffers - c.lowered + buffer
               /\ strong' = strong - released + (IF made THEN 1 ELSE 0)
               /\ broker' = IF made THEN "used" ELSE broker
               /\ binding' = [binding EXCEPT ![t] =
                    IF buffer = 1
                    THEN [Idle EXCEPT !.stage = "lifting", !.op = c.op, !.lifts = answer]
                    ELSE Idle]
    IN /\ c.stage = "rust"
       /\ \/ Answers(Signature(c.op).answer, Signature(c.op).answer = "handle")
          \/ Answers("text", FALSE)
          \/ Answers("none", FALSE)
       /\ UNCHANGED <<library, unencodable>>

\* The buffer freed at the end of the block only, not when the read raises.
LiftWithoutFinally(t) ==
    /\ binding[t].stage = "lifting"
    /\ \E decodes \in BOOLEAN :
         /\ ~decodes => MayNotDecode(binding[t].lifts)
         /\ liveBuffers' = IF decodes THEN liveBuffers - 1 ELSE liveBuffers
    /\ binding' = [binding EXCEPT ![t] = Idle]
    /\ UNCHANGED <<library, strong, broker, unencodable>>

(* consume_with_stream: whether the value decodes, the read goes past the  *)
(* end or junk is left, the buffer is freed on the way out.                *)
Lift(t) ==
    /\ binding[t].stage = "lifting"
    /\ \E decodes \in BOOLEAN :
         /\ ~decodes => MayNotDecode(binding[t].lifts)
         /\ liveBuffers' = liveBuffers - 1
    /\ binding' = [binding EXCEPT ![t] = Idle]
    /\ UNCHANGED <<library, strong, broker, unencodable>>

(* The program drops its last reference, and the object is collected when  *)
(* no call of a method still has it on its stack: __del__ frees the handle. *)
DropBroker ==
    /\ broker = "used" /\ broker' = "dropped"
    /\ UNCHANGED <<library, liveBuffers, strong, binding, unencodable>>

Del ==
    /\ broker = "dropped"
    /\ \A t \in Callers : Signature(binding[t].op).method => binding[t].stage = "idle"
    /\ broker' = "none" /\ strong' = strong - 1
    /\ UNCHANGED <<library, liveBuffers, binding, unencodable>>

BindingStep(t) ==
    \/ Begin(t) \/ CloneHandle(t) \/ Alloc(t) \/ Finalize(t) \/ Discard(t)
    \/ EnterRust(t) \/ LeaveRust(t) \/ Lift(t)

BindingNext == Import \/ DropBroker \/ Del \/ \E t \in Callers : BindingStep(t)

BindingSpec == BindingInit /\ [][BindingNext]_bindingVars

---------------------------------------------------------------------------
(* What the calls in progress hold: of each call its clone, and its buffers *)
(* one by one, of which no operation has more than four.                   *)
HeldBuffers(c) == c.lowered + (IF c.stage \in {"building", "lifting"} THEN 1 ELSE 0)
BuffersHeld == {h \in Callers \X (1 .. 4) : h[2] <= HeldBuffers(binding[h[1]])}
ClonesHeld == {t \in Callers : binding[t].clone}

BindingTypeOK ==
    /\ [library EXCEPT !.loaded = FALSE] \in Libraries
    /\ liveBuffers \in Nat /\ strong \in Nat
    /\ broker \in {"none", "used", "dropped"}
    /\ unencodable \in 0 .. MaxUnencodable
    /\ \A t \in Callers : binding[t].stage \in Stages /\ binding[t].lowered \in 0 .. 4

(* Whatever threads call the broker while it is dropped, and however calls *)
(* end, memory that crosses the boundary is freed exactly once: the live   *)
(* buffers are those held by calls in progress, the owners of the Rust     *)
(* broker are its Python object and the clones of those calls (so it never *)
(* dies under a call and never outlives its object and their end).  Only a *)
(* call whose argument passed its check and then failed to encode leaves a *)
(* clone and the arguments lowered before it behind.                       *)
MemoryBalances ==
    LET held   == Cardinality(BuffersHeld)
        clones == Cardinality(ClonesHeld)
        owned  == IF broker = "none" THEN 0 ELSE 1
    IN /\ liveBuffers >= held /\ strong >= owned + clones
       /\ liveBuffers <= held + 3 * unencodable
       /\ strong <= owned + clones + unencodable
============================================================================
