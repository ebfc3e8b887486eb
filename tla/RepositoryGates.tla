-------------------------- MODULE RepositoryGates --------------------------
(***************************************************************************)
(* The tools that write derived files of the repository, and the gates     *)
(* that compare them: the contract generators (contracts/codegen), the     *)
(* version sync and check (scripts/sync_versions.py, verify_versions.py),  *)
(* the vector checks, the consumer table and the suffix lists.             *)
(*                                                                         *)
(* The tree is edited by hand, one thing at a time; a tool writes one file *)
(* at a time and may be interrupted.  A file's text is a revision: files   *)
(* of the same revision say the same.  One tool runs at a time (a bound).  *)
(***************************************************************************)
EXTENDS Naturals, Sequences, FiniteSets, SequencesExt, Lists

CONSTANTS
  Contracts,     \* the schemas, in the order the generators read them
  Modelled,      \* those with a hand-written model (REAL_MODEL_CONTRACTS)
  Vectors,       \* vector files; each holds instances of one contract
  ContractOf,    \* ContractOf[v]
  Properties,    \* keys that version.properties must have
  Declarations,  \* what the sync writes into each file by one write, in order:
                 \* functions from declarations to keys
  Optional,      \* keys it may lack (ANDROID_APPLICATION_ID)
  HandWritten,   \* a function from the declarations that no tool writes, only
                 \* the check reads, to those keys
  MinCrossEnd,   \* vectors that must be executed on both ends (1)
  MinSchemas,    \* schemas there must be (7)
  MinVectors,    \* vector files there must be (23)
  MaxEdits       \* bound: edits by hand

AllContracts == ToSet(Contracts)
Ends == {"cs", "kt"}
Revisions == {"v1", "v2"}
\* Revisions with an enum whose values make the same constant name on one end
\* only ("aB" and "a_b" are AB in C#, "ab" and "aB" are AB in Kotlin), and one
\* with a type that neither end knows.
Texts == Revisions \cup {"camel", "case", "odd"}
AllDeclarations == UNION {DOMAIN Declarations[i] : i \in DOMAIN Declarations}
KeyOf(d) == LET i == CHOOSE j \in DOMAIN Declarations : d \in DOMAIN Declarations[j]
            IN  Declarations[i][d]

ASSUME GatesAssumption ==
  /\ Contracts \in Seq(AllContracts) /\ Modelled \subseteq AllContracts
  /\ ContractOf \in [Vectors -> AllContracts]
  /\ Declarations \in Seq(ToSet(Declarations))
  /\ \A i \in DOMAIN Declarations :
       Declarations[i] \in [DOMAIN Declarations[i] -> Properties]
  /\ HandWritten \in [DOMAIN HandWritten -> Optional]
  /\ MinCrossEnd \in Nat \ {0}

VARIABLES
  schema,       \* schema[c]: a text, or "absent"
  mirror,       \* mirror[e][c]: the generated model: of a text, "edited", "absent"
  model,        \* model[c]: the revision whose fields the written model has
  consumed,     \* <<e, c>>: code of end e refers to the mirror of c
  exempt,       \* DESIGN_NOTATION_MIRRORS
  vector,       \* vector[v]: its instances' revision, "empty", "absent"
  runs,         \* runs[v]: the ends whose code executes v
  registered,   \* registered[v]: the ends in CONSUMER_MANIFEST, one set or none
  property,     \* property[k]: a revision or "none"
  declared,     \* declared[d]: a revision
  given,        \* given[k]: a revision or "none", of an optional key
  written,      \* written[d]: a revision, written by hand
  wired,        \* the Android build reads its version from the properties
  suffixes,     \* suffixes[e]: an end's copy of the suffix list; "list" is the list
  framing,      \* framing[e]: "top" or "frame", whose host seeds the noise
  tool,         \* the tool that runs, what it has still to write, and whether
                \* what it reads or writes was edited since it began
  finished,     \* tools that ran to their end, with nothing edited since
  edits         \* edits so far

gateVars == <<schema, mirror, model, consumed, exempt, vector, runs, registered, property,
              declared, given, written, wired, suffixes, framing, tool, finished, edits>>
contractVars == <<schema, mirror, model, consumed, exempt>>
vectorVars == <<vector, runs, registered>>
versionVars == <<property, declared, given, written, wired>>
handVars == <<given, written>>
seedVars == <<suffixes, framing>>
toolVars == <<tool, finished>>

NoTool == [name |-> "none", left |-> <<>>, clean |-> TRUE]
Tools == Ends \cup {"sync"}

GatesTypeOK ==
  /\ schema \in [AllContracts -> Texts \cup {"absent"}]
  /\ mirror \in [Ends -> [AllContracts -> Texts \cup {"edited", "absent"}]]
  /\ property \in [Properties -> Revisions \cup {"none"}]
  /\ given \in [Optional -> Revisions \cup {"none"}]
  /\ tool.name \in Tools \cup {"none"} /\ finished \subseteq Tools
  /\ edits \in 0..MaxEdits

GatesInit ==
  /\ schema = [c \in AllContracts |-> "v1"]
  /\ mirror = [e \in Ends |-> schema]
  /\ model = [c \in Modelled |-> "v1"]
  /\ consumed = {} /\ exempt = AllContracts
  /\ vector = [v \in Vectors |-> "v1"]
  /\ runs = [v \in Vectors |-> Ends] /\ registered = [v \in Vectors |-> {Ends}]
  /\ property = [k \in Properties |-> "v1"]
  /\ declared = [d \in AllDeclarations |-> "v1"]
  /\ given = [k \in Optional |-> "v1"] /\ written = [d \in DOMAIN HandWritten |-> "v1"]
  /\ wired = TRUE
  /\ suffixes = [e \in Ends \cup {"list"} |-> {"pinned", "other"}]
  /\ framing = [e \in Ends |-> "top"]
  /\ tool = NoTool /\ finished = {}
  /\ edits = 0

-----------------------------------------------------------------------------
(* Edits by hand.                                                          *)

\* What the tools of T read or write was edited.
Edited(T) ==
  /\ edits < MaxEdits /\ edits' = edits + 1
  /\ tool' = IF tool.name \in T THEN [tool EXCEPT !.clean = FALSE] ELSE tool
  /\ finished' = finished \ T

EditSchema(c, text) ==
  /\ Edited(Ends)
  /\ schema' = [schema EXCEPT ![c] = text]
  /\ UNCHANGED <<mirror, model, consumed, exempt, vectorVars, versionVars, seedVars>>

EditMirror(e, c) ==
  /\ Edited({e}) /\ mirror[e][c] # "absent"
  /\ mirror' = [mirror EXCEPT ![e][c] = "edited"]
  /\ UNCHANGED <<schema, model, consumed, exempt, vectorVars, versionVars, seedVars>>

EditModel(c, text) ==
  /\ Edited({})
  /\ model' = [model EXCEPT ![c] = text]
  /\ UNCHANGED <<schema, mirror, consumed, exempt, vectorVars, versionVars, seedVars>>

\* Code begins to use a mirror, or an exemption is written or struck.
UseMirror(e, c) ==
  /\ Edited({})
  /\ consumed' = consumed \cup {<<e, c>>}
  /\ UNCHANGED <<schema, mirror, model, exempt, vectorVars, versionVars, seedVars>>

EditExemption(c) ==
  /\ Edited({})
  /\ exempt' = IF c \in exempt THEN exempt \ {c} ELSE exempt \cup {c}
  /\ UNCHANGED <<schema, mirror, model, consumed, vectorVars, versionVars, seedVars>>

EditVector(v, text) ==
  /\ Edited({})
  /\ vector' = [vector EXCEPT ![v] = text]
  /\ UNCHANGED <<contractVars, runs, registered, versionVars, seedVars>>

\* A test begins or ceases to execute a vector; naming it in a comment is
\* neither.
EditConsumer(v, e) ==
  /\ Edited({})
  /\ runs' = [runs EXCEPT ![v] = IF e \in @ THEN @ \ {e} ELSE @ \cup {e}]
  /\ UNCHANGED <<contractVars, vector, registered, versionVars, seedVars>>

EditRegistration(v, entry) ==
  /\ Edited({})
  /\ registered' = [registered EXCEPT ![v] = entry]
  /\ UNCHANGED <<contractVars, vector, runs, versionVars, seedVars>>

EditProperty(k, text) ==
  /\ Edited({"sync"})
  /\ property' = [property EXCEPT ![k] = text]
  /\ UNCHANGED <<contractVars, vectorVars, declared, handVars, wired, seedVars>>

EditDeclaration(d, text) ==
  /\ Edited({"sync"})
  /\ declared' = [declared EXCEPT ![d] = text]
  /\ UNCHANGED <<contractVars, vectorVars, property, handVars, wired, seedVars>>

\* What no tool reads or writes: an optional key, and where it is written.
EditOptional(k, text) ==
  /\ Edited({})
  /\ given' = [given EXCEPT ![k] = text]
  /\ UNCHANGED <<contractVars, vectorVars, property, declared, written, wired, seedVars>>

EditHandWritten(d, text) ==
  /\ Edited({})
  /\ written' = [written EXCEPT ![d] = text]
  /\ UNCHANGED <<contractVars, vectorVars, property, declared, given, wired, seedVars>>

HardcodeAndroid ==
  /\ Edited({})
  /\ wired' = ~wired
  /\ UNCHANGED <<contractVars, vectorVars, property, declared, handVars, seedVars>>

EditSuffixes(at, entries) ==
  /\ Edited({})
  /\ suffixes' = [suffixes EXCEPT ![at] = entries]
  /\ UNCHANGED <<contractVars, vectorVars, versionVars, framing>>

EditFraming(e) ==
  /\ Edited({})
  /\ framing' = [framing EXCEPT ![e] = IF @ = "top" THEN "frame" ELSE "top"]
  /\ UNCHANGED <<contractVars, vectorVars, versionVars, suffixes>>

EditByHand ==
  \/ \E c \in AllContracts :
       \/ \E text \in Texts \cup {"absent"} : EditSchema(c, text)
       \/ \E e \in Ends : EditMirror(e, c) \/ UseMirror(e, c)
       \/ EditExemption(c)
  \/ \E c \in Modelled : EditModel(c, "v2")
  \/ \E v \in Vectors :
       \/ \E text \in {"v2", "empty", "absent"} : EditVector(v, text)
       \/ \E e \in Ends : EditConsumer(v, e) \/ EditRegistration(v, {{e}})
       \/ EditRegistration(v, {})
  \/ \E k \in Properties, text \in {"v2", "none"} : EditProperty(k, text)
  \/ \E d \in AllDeclarations : EditDeclaration(d, "v2")
  \/ \E k \in Optional, text \in {"v2", "none"} : EditOptional(k, text)
  \/ \E d \in DOMAIN HandWritten : EditHandWritten(d, "v2")
  \/ HardcodeAndroid
  \/ \E at \in Ends \cup {"list"} : EditSuffixes(at, {"other"})
  \/ \E e \in Ends : EditFraming(e)

-----------------------------------------------------------------------------
(* The tools.                                                              *)

\* generate_csharp and generate_kotlin start on every schema there is.
StartGenerator(e) ==
  /\ tool = NoTool
  /\ LET there == {i \in DOMAIN Contracts : schema[Contracts[i]] # "absent"}
     IN  tool' = [name |-> e, left |-> Only(Contracts, there), clean |-> TRUE]
  /\ UNCHANGED <<contractVars, vectorVars, versionVars, seedVars, finished, edits>>

\* generate of generate_csharp and of generate_kotlin: the model of a schema,
\* or an exception.
CsModel(text) == IF text \in {"odd", "camel"} THEN "none" ELSE text
KtModel(text) == IF text \in {"odd", "case"} THEN "none" ELSE text
Generated(e, text) == IF e = "cs" THEN CsModel(text) ELSE KtModel(text)

\* One model is generated and written; an exception ends the generator, with
\* the models before it written and those of removed schemas still there.
GenerateModel(e) ==
  /\ tool.name = e /\ tool.left # <<>>
  /\ LET c == Head(tool.left)
         text == IF schema[c] = "absent" THEN "none" ELSE Generated(e, schema[c])
     IN  IF text # "none"
         THEN /\ mirror' = [mirror EXCEPT ![e][c] = text]
              /\ tool' = [tool EXCEPT !.left = Tail(@)]
         ELSE tool' = NoTool /\ UNCHANGED mirror
  /\ UNCHANGED <<schema, model, consumed, exempt, vectorVars, versionVars, seedVars,
                 finished, edits>>

\* Models of no schema are removed at the end.
EndGenerator(e) ==
  /\ tool.name = e /\ tool.left = <<>>
  /\ mirror' = [mirror EXCEPT
       ![e] = [c \in AllContracts |-> IF schema[c] = "absent" THEN "absent" ELSE @[c]]]
  /\ tool' = NoTool
  /\ finished' = IF tool.clean THEN finished \cup {e} ELSE finished
  /\ UNCHANGED <<schema, model, consumed, exempt, vectorVars, versionVars, seedVars, edits>>

\* sync_versions reads the properties once, and refuses where one that must be
\* there is missing; it has no use for the others.
StartSync ==
  /\ tool = NoTool
  /\ \A k \in Properties : property[k] # "none"
  /\ tool' = [name |-> "sync", left |-> Declarations, clean |-> TRUE, read |-> property]
  /\ UNCHANGED <<contractVars, vectorVars, versionVars, seedVars, finished, edits>>

\* Each write replaces its file as a whole.
SyncFile ==
  /\ tool.name = "sync" /\ tool.left # <<>>
  /\ declared' = [d \in AllDeclarations |->
       IF d \in DOMAIN Head(tool.left) THEN tool.read[KeyOf(d)] ELSE declared[d]]
  /\ tool' = [tool EXCEPT !.left = Tail(@)]
  /\ UNCHANGED <<contractVars, vectorVars, property, handVars, wired, seedVars, finished, edits>>

EndSync ==
  /\ tool.name = "sync" /\ tool.left = <<>>
  /\ tool' = NoTool
  /\ finished' = IF tool.clean THEN finished \cup {"sync"} ELSE finished
  /\ UNCHANGED <<contractVars, vectorVars, versionVars, seedVars, edits>>

Interrupt ==
  /\ tool # NoTool
  /\ tool' = NoTool
  /\ UNCHANGED <<contractVars, vectorVars, versionVars, seedVars, finished, edits>>

RunTool ==
  \/ \E e \in Ends : StartGenerator(e) \/ GenerateModel(e) \/ EndGenerator(e)
  \/ StartSync \/ SyncFile \/ EndSync
  \/ Interrupt

GatesNext == EditByHand \/ RunTool

GatesSpec == GatesInit /\ [][GatesNext]_gateVars

-----------------------------------------------------------------------------
(* The gates.                                                              *)

\* Mistake: a mirror that nobody uses is not compared.
UsedMirrorsMatch(e) ==
  \A c \in AllContracts \ exempt :
    schema[c] # "absent" => mirror[e][c] = Generated(e, schema[c])

\* check_generated_models: each mirror is what its schema generates now (an
\* exception of the generator ends the gate, too).
MirrorsMatch(e) ==
  \A c \in AllContracts : schema[c] # "absent" => mirror[e][c] = Generated(e, schema[c])

\* check_real_models: what the schema requires is in the model.
ModelsMatch ==
  \A c \in Modelled : schema[c] = "v1" \/ (schema[c] = "v2" /\ model[c] = "v2")

\* consumed_names: mirrors that code of their own end names, outside of tests
\* and of generated and built files.
ConsumedNames(e) == {c \in AllContracts : mirror[e][c] # "absent" /\ <<e, c>> \in consumed}

\* check_mirror_consumption: used, or exempt and unused; no dead exemption.
MirrorsAccountedFor ==
  /\ \A e \in Ends, c \in AllContracts :
       mirror[e][c] # "absent" => (c \in exempt <=> c \notin ConsumedNames(e))
  /\ \A c \in exempt : \E e \in Ends : mirror[e][c] # "absent"

\* verify_vectors: enough schemas and vector files, none without entries.
VectorsWellFormed ==
  /\ Cardinality({c \in AllContracts : schema[c] # "absent"}) >= MinSchemas
  /\ Cardinality({v \in Vectors : vector[v] # "absent"}) >= MinVectors
  /\ \A v \in Vectors : vector[v] # "empty"

\* validate_vector_schemas: every file of its table is there, and the schema
\* judges its instances as they say; a file without instances passes.
InstancesAccepted ==
  \A v \in Vectors : vector[v] = "empty" \/ vector[v] = schema[ContractOf[v]]

\* verify_vector_consumers: the table is what the code does, and some vectors
\* are executed on both ends.
ConsumersRegistered ==
  LET there == {v \in Vectors : vector[v] # "absent"}
  IN  /\ \A v \in there : registered[v] = {runs[v]}
      /\ \A v \in Vectors \ there : registered[v] = {}
      /\ Cardinality({v \in there : runs[v] = Ends}) >= MinCrossEnd

\* verify_versions: what the sync writes, and what is written by hand where the
\* optional key is there.
SyncedMatch ==
  /\ \A k \in Properties : property[k] # "none"
  /\ \A d \in AllDeclarations : declared[d] = property[KeyOf(d)]
HandWrittenMatch ==
  \A d \in DOMAIN HandWritten :
    given[HandWritten[d]] # "none" => written[d] = given[HandWritten[d]]
DeclarationsMatch == SyncedMatch /\ HandWrittenMatch
VersionsVerified == DeclarationsMatch /\ wired

\* verify_seed_framing_parity.
SeedsAgree ==
  /\ "pinned" \in suffixes["list"]
  /\ \A e \in Ends : suffixes[e] = suffixes["list"] /\ framing[e] = "top"

GatesPass ==
  /\ \A e \in Ends : MirrorsMatch(e)
  /\ ModelsMatch /\ MirrorsAccountedFor
  /\ VectorsWellFormed /\ InstancesAccepted /\ ConsumersRegistered
  /\ VersionsVerified /\ SeedsAgree

-----------------------------------------------------------------------------
(* Properties.                                                             *)

\* The three parts of a contract: both ends' mirrors and its vectors hold to
\* one revision of it, and an end that uses a mirror has it.
ContractsAgree ==
  \A c \in AllContracts : schema[c] # "absent" =>
    \E r \in Revisions :
      /\ \A e \in Ends : mirror[e][c] = r
      /\ \A v \in Vectors : ContractOf[v] = c /\ vector[v] # "absent" => vector[v] = r

\* A change of the noise seeds or of a vector's verdict is seen on both ends, and
\* every place where a version or a present id is declared says the same.
EndsAgree ==
  /\ suffixes["cs"] = suffixes["kt"] /\ framing["cs"] = framing["kt"]
  /\ \E v \in Vectors : vector[v] \in Revisions /\ runs[v] = Ends
  /\ \E r \in [Properties -> Revisions] : \A d \in AllDeclarations : declared[d] = r[KeyOf(d)]
  /\ \A c, d \in DOMAIN HandWritten :
       HandWritten[c] = HandWritten[d] /\ given[HandWritten[c]] # "none" => written[c] = written[d]

\* Writers and readers agree: whatever partial runs, interruptions and edits came
\* before, a generator that has just run to its end leaves what its gate asks
\* for, and the sync what the version gate asks of the declarations that the
\* sync writes.  The application id that gate compares as well is nobody's to
\* write: after its key is edited, a sync to the end leaves the gate red.  And a
\* tree that passes every gate holds together across the ends.
GatesAgree ==
  /\ \A e \in Ends : e \in finished => MirrorsMatch(e)
  /\ "sync" \in finished => SyncedMatch
  /\ GatesPass => ContractsAgree /\ EndsAgree
=============================================================================
