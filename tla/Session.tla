------------------------------ MODULE Session ------------------------------
(***************************************************************************)
(* What a caller does with a Dag after it is built (iyfc_include.cpp):     *)
(* compile, generate keys, encrypt, execute, decrypt, and move parts of a  *)
(* session from one Dag to another as texts.  The state is what            *)
(* AloDecision, FheManager and the library's adapter hold for each Dag.    *)
(* The adapters of SEAL and OpenFHE agree at this level; the Concrete one  *)
(* has neither parameters nor a signature and encrypts with the secret key. *)
(*                                                                         *)
(* Texts may be loaded anywhere, in any order, twice or never.             *)
(***************************************************************************)
EXTENDS Naturals, FiniteSets

CONSTANTS
  Libraries,   \* the libraries that the algorithm decision may choose
  Handle,      \* the Dags in use, by name
  Builder,     \* those whose program the caller built
  Name,        \* the inputs of the program
  Para,        \* what callers ask a text to contain (setDagSerializePara)
  Calls,       \* the calls that callers make
  MaxKey,      \* bound: key generations
  MaxVersion,  \* the values an input can have
  MaxLibs,     \* bound: the length of AloDecision::m_libs
  MaxTexts     \* bound: the texts saved

\* DagSerializePara: need_node_info, need_genkey_info, need_sig_info, need_exe_ctx, ...
Piece == {"nodes", "params", "sig", "exe", "encrypt", "decrypt"}

ASSUME LibrariesAssumption == Libraries \subseteq {"SEAL", "OpenFHE", "Concrete"}
ASSUME BuilderAssumption == Builder \subseteq Handle
ASSUME ParaAssumption == Para \subseteq SUBSET Piece
ASSUME BoundsAssumption ==
  MaxKey \in Nat /\ MaxVersion \in Nat /\ MaxLibs \in Nat \ {0} /\ MaxTexts \in Nat

VARIABLES
  library,   \* what was chosen for the program
  dag,       \* the session of each Dag
  texts,     \* the texts that were saved
  keys,      \* the number of key generations so far
  last       \* what the last call was and how it ended

vars == <<library, dag, texts, keys, last>>

None == 0                                  \* a null key context
Absent == [key |-> None, version |-> 0]    \* no ciphertext for a name
NoInputs == [n \in Name |-> Absent]        \* a null valuation
NoOutputs == [by |-> None, of |-> NoInputs]    \* a null valuation of outputs

\* A valuation of outputs that has no value, but a context.
IsEmpty(outputs) == outputs # NoOutputs /\ outputs.of = NoInputs

\* A Dag without AloDecision.
Fresh(nodes) ==
  [nodes   |-> nodes,      \* none, source, compiled, or broken by a failed compilation
   decided |-> FALSE,      \* m_alo_decision
   libs    |-> 0,          \* m_libs.size()
   adapter |-> FALSE,      \* m_alo_adapter
   params  |-> FALSE,      \* m_ckks_en_params, m_en_params
   sig     |-> FALSE,      \* m_ckks_signature, m_signature
   public  |-> None,       \* the two halves of m_seal_ctx, m_openfhe_ctx:
   secret  |-> None,       \*   which generation they belong to
   inputs  |-> NoInputs,   \* m_ckks_valution, m_valution
   outputs |-> NoOutputs]  \* m_ckks_output_en, m_output_en: by which key, of which inputs

Garbage == [n \in Name |-> 0]

Concrete == library = "Concrete"

Init ==
  /\ library \in Libraries
  /\ dag = [d \in Handle |-> Fresh(IF d \in Builder THEN "source" ELSE "none")]
  /\ texts = {}
  /\ keys = 0
  /\ last = [call |-> "none", how |-> "returns", plain |-> Garbage]

-----------------------------------------------------------------------------
\* How a call ends, and the session it leaves.
Ends(call, d, how, session) ==
  /\ call \in Calls
  /\ dag' = [dag EXCEPT ![d] = session]
  /\ last' = [call |-> call, how |-> how, plain |-> Garbage]
  /\ UNCHANGED library

Saves(call, d, session, text) ==
  /\ Ends(call, d, "returns", session)
  /\ texts' = texts \cup {text}
  /\ Cardinality(texts') <= MaxTexts
  /\ UNCHANGED keys

Keeps == UNCHANGED <<texts, keys>>

\* Fault: a decision that is there is kept.
BegunAgain(r) == [r EXCEPT !.nodes = "broken", !.decided = TRUE]

\* Dag::doTranspile begins with a new decision.
Begun(r) == [Fresh("broken") EXCEPT !.decided = TRUE]

\* InitAloPtr
WithAdapter(r) == [r EXCEPT !.adapter = TRUE]

\* setParaAndSig: the adapter of Concrete takes nothing.
WithParaAndSig(r) == [r EXCEPT !.params = ~Concrete, !.sig = ~Concrete]

\* compileAlo: dagTranspile, and what it has made.
Compiled(r) == [WithParaAndSig(r) EXCEPT !.nodes = "compiled"]

(* InitAloPtr makes the adapter before compileAlo, which may throw; the    *)
(* library's name is noted after it.  A caller compiles a program once.    *)
CompileDag(d) ==
  LET begun == Begun(dag[d]) IN
  /\ dag[d].nodes = "source"
  /\ \/ Ends("compileDag", d, "returns",
             [Compiled(WithAdapter(begun)) EXCEPT !.libs = @ + 1])
     \/ \E made \in BOOLEAN :
          Ends("compileDag", d, "throws", IF made THEN WithAdapter(begun) ELSE begun)
  /\ Keeps

\* One KeyGen of the library gives both contexts.
Generated(r, key) == [r EXCEPT !.public = key, !.secret = key]

CanGenerate(r) == Concrete \/ r.params

\* Keys for every name in m_libs; the last ones stay.
GenKeys(d) ==
  LET r == dag[d] IN
  \/ /\ ~r.decided
     /\ Ends("genKeys", d, "crashes", r)
     /\ Keeps
  \/ /\ r.decided /\ r.libs = 0
     /\ Ends("genKeys", d, "returns", r)
     /\ Keeps
  \/ /\ r.libs > 0 /\ ~CanGenerate(r)
     /\ Ends("genKeys", d, "throws", r)
     /\ Keeps
  \/ /\ r.libs > 0 /\ CanGenerate(r)
     /\ keys < MaxKey
     /\ keys' = keys + 1
     /\ Ends("genKeys", d, "returns", Generated(r, keys'))
     /\ UNCHANGED texts

\* Fault: the new values take the place of all that are there.
MergeForgets(old, new) == new

(* mergeInput: the new values are added to those that are there.  SEAL and *)
(* OpenFHE overwrite a value, the insert of Concrete keeps the old one.    *)
Merge(old, new) ==
  [n \in Name |-> IF new[n] = Absent \/ (Concrete /\ old[n] # Absent) THEN old[n] ELSE new[n]]

WithInputs(r, new, replace) ==
  [r EXCEPT !.inputs = IF replace THEN new ELSE Merge(@, new)]

Encrypted(key, values) ==
  [n \in Name |-> IF values[n] = 0 THEN Absent ELSE [key |-> key, version |-> values[n]]]

(* SEAL and OpenFHE: nothing to encrypt is an error code that the caller   *)
(* does not see.                                                           *)
LatticeEncrypts(d, values, replace) ==
  LET r == dag[d]
      new == Encrypted(r.public, values)
  IN  IF r.libs > 0 /\ r.public # None /\ r.sig
      THEN Ends("encryptInput", d, "returns",
                IF new = NoInputs THEN r ELSE WithInputs(r, new, replace))
      ELSE Ends("encryptInput", d, "throws", r)

\* ConcreteSecret::encrypt: a value above 15 makes it a null valuation.
ConcreteEncrypted(key, values, tooLarge) ==
  IF tooLarge THEN NoInputs ELSE Encrypted(key, values)

\* Concrete: the secret context encrypts, and what was there is always replaced.
ConcreteEncrypts(d, values) ==
  LET r == dag[d] IN
  /\ Encrypted(r.secret, values) # NoInputs
  /\ IF r.libs > 0 /\ r.secret # None
     THEN \E tooLarge \in BOOLEAN :
            Ends("encryptInput", d, "returns",
                 [r EXCEPT !.inputs = ConcreteEncrypted(r.secret, values, tooLarge)])
     ELSE Ends("encryptInput", d, "throws", r)

EncryptInput(d, values, replace) ==
  /\ IF Concrete THEN ConcreteEncrypts(d, values) ELSE LatticeEncrypts(d, values, replace)
  /\ Keeps

\* What an execution leaves.
Executed(r) == [r EXCEPT !.outputs = [by |-> r.public, of |-> r.inputs]]

\* Fault: an input that is missing is not noticed.
ExeDagPartial(d) ==
  LET r == dag[d] IN
  /\ r.nodes = "compiled" /\ r.libs > 0 /\ r.public # None /\ r.inputs # NoInputs
  /\ Ends("exeDag", d, "returns", Executed(r))
  /\ Keeps

\* IsErr: an execution that fails leaves a valuation without a value.
ExecutedToNothing(r) == [r EXCEPT !.outputs = [by |-> r.public, of |-> NoInputs]]

(* A null valuation is dereferenced; an input that is missing, and a       *)
(* program that is, make the executor throw, and so may the library.  What *)
(* fails at the last visit is seen by nobody: the call returns.  (Concrete *)
(* has no such error.)                                                     *)
ExeDag(d) ==
  LET r == dag[d]
      ready == r.libs > 0 /\ r.public # None
  IN  /\ r.nodes \in {"none", "compiled"}
      /\ \/ /\ ready /\ r.inputs = NoInputs
            /\ Ends("exeDag", d, "crashes", r)
         \/ /\ ~ready \/ r.inputs # NoInputs
            /\ Ends("exeDag", d, "throws", r)
         \/ /\ ready /\ r.nodes = "compiled"
            /\ \A n \in Name : r.inputs[n] # Absent
            /\ \/ Ends("exeDag", d, "returns", Executed(r))
               \/ ~Concrete /\ Ends("exeDag", d, "returns", ExecutedToNothing(r))
      /\ Keeps

\* What a secret key makes of outputs.
Plain(secret, outputs) ==
  IF outputs.by = secret /\ \A n \in Name : outputs.of[n].key = secret
  THEN [n \in Name |-> outputs.of[n].version]
  ELSE Garbage

(* The outputs, and the signature that gives their size, are dereferenced  *)
(* unchecked; the Concrete adapter needs no size.                          *)
CanDecrypt(r) == r.outputs # NoOutputs /\ (Concrete \/ r.sig)

\* Nothing to decrypt is an error.
DecryptOutput(d) ==
  LET r == dag[d]
      ready == r.libs > 0 /\ r.secret # None
  IN  /\ \/ /\ ~ready \/ (CanDecrypt(r) /\ IsEmpty(r.outputs))
            /\ Ends("decryptOutput", d, "throws", r)
         \/ /\ ready /\ ~CanDecrypt(r)
            /\ Ends("decryptOutput", d, "crashes", r)
         \/ /\ ready /\ CanDecrypt(r) /\ ~IsEmpty(r.outputs)
            /\ "decryptOutput" \in Calls
            /\ UNCHANGED <<library, dag>>
            /\ last' = [call |-> "decryptOutput", how |-> "returns",
                        plain |-> Plain(r.secret, r.outputs)]
      /\ Keeps

-----------------------------------------------------------------------------
\* The contexts that a text is to contain: Concrete encrypts with the client key.
WantsPublic(want) == "exe" \in want \/ (~Concrete /\ "encrypt" \in want)
WantsSecret(want) == "decrypt" \in want \/ (Concrete /\ "encrypt" \in want)

\* serializeCommInfo
LacksCommon(r, want) ==
  \/ "sig" \in want /\ ~r.sig
  \/ WantsPublic(want) /\ r.public = None
  \/ WantsSecret(want) /\ r.secret = None

LacksParameters(r, want) == "params" \in want /\ ~r.params

LacksKeys(r, want) ==
  \/ WantsPublic(want) /\ r.public = None
  \/ WantsSecret(want) /\ r.secret = None

(* serializeAlo: every name in m_libs gets the adapter's pieces that the   *)
(* caller asked for; a piece that is not there is an error.                *)
Missing(r, want) ==
  /\ r.libs > 0
  /\ IF Concrete THEN LacksKeys(r, want)
     ELSE LacksParameters(r, want) \/ LacksCommon(r, want)

Text(kind, r, want) ==
  LET filled == r.libs > 0 IN
  [kind    |-> kind,
   nodes   |-> IF kind = "dag" /\ "nodes" \in want THEN r.nodes ELSE "none",
   decided |-> r.decided,
   libs    |-> r.libs,
   params  |-> filled /\ ~Concrete /\ "params" \in want,
   sig     |-> filled /\ ~Concrete /\ "sig" \in want,
   public  |-> IF filled /\ WantsPublic(want) THEN r.public ELSE None,
   secret  |-> IF filled /\ WantsSecret(want) THEN r.secret ELSE None]

SaveDag(d, want) ==
  LET r == dag[d] IN
  \/ /\ Missing(r, want)
     /\ Ends("saveDag", d, "throws", r)
     /\ Keeps
  \/ /\ ~Missing(r, want)
     /\ Saves("saveDag", d, r, Text("dag", r, want))

\* "Decision execution separation": a Dag without a decision gets one.
SaveKeys(d, want) ==
  LET r == [dag[d] EXCEPT !.decided = TRUE] IN
  \/ /\ Missing(r, want)
     /\ Ends("saveKeys", d, "throws", r)
     /\ Keeps
  \/ /\ ~Missing(r, want)
     /\ Saves("saveKeys", d, r, Text("keys", r, want))

\* Fault: a context that the text does not contain stays as it was.
CommonKeepsHalf(r, t) ==
  [r EXCEPT !.public = IF t.public = None THEN @ ELSE t.public,
            !.secret = IF t.secret = None THEN @ ELSE t.secret,
            !.sig = @ \/ t.sig]

\* Fault: a signature that the text does not contain is dropped.
CommonForgetsSig(r, t) ==
  [r EXCEPT !.public = t.public, !.secret = t.secret, !.sig = t.sig]

\* deserializeCommInfo: both contexts are replaced, with nothing if the text has none.
WithCommon(r, t) ==
  [r EXCEPT !.public = t.public, !.secret = t.secret, !.sig = @ \/ t.sig]

\* The parameters and the signature are replaced only by what the text contains.
WithText(r, t) == [WithCommon(r, t) EXCEPT !.params = @ \/ t.params]

\* The adapter of Concrete.
WithKeys(r, t) == [r EXCEPT !.public = t.public, !.secret = t.secret]

\* Fault: the names are noted, the adapter is not made.
LoadedUninitialised(r, t) ==
  [r EXCEPT !.decided = TRUE, !.libs = @ + t.libs]

(* loadAloInfoFromMsg: names, adapter, and what the adapter takes from the *)
(* text.  A text without names is an error code that the caller does not   *)
(* see.                                                                    *)
Loaded(r, t) ==
  LET named == WithAdapter([r EXCEPT !.decided = TRUE, !.libs = @ + t.libs]) IN
  IF t.libs = 0 THEN [r EXCEPT !.decided = TRUE]
  ELSE IF Concrete THEN WithKeys(named, t) ELSE WithText(named, t)

\* A new Dag takes the name of a released one.
LoadDag(d, t) ==
  /\ t.kind = "dag"
  /\ t.nodes # "broken"
  /\ Ends("loadDag", d, "returns",
          IF t.decided THEN Loaded(Fresh(t.nodes), t) ELSE Fresh(t.nodes))
  /\ Keeps

\* Fault: the first context is read into its place.
RefusedAfterHalf(r, t) ==
  [r EXCEPT !.decided = TRUE, !.libs = @ + 1, !.adapter = TRUE,
            !.public = IF t.public = None THEN @ ELSE t.public]

(* A text that the library refuses, or whose first context it has read     *)
(* and whose second it refuses, leaves the contexts as they were.  (The    *)
(* Rust code of Concrete does not throw, it ends the program.)             *)
Refused(r, t) == [r EXCEPT !.decided = TRUE, !.libs = @ + 1, !.adapter = TRUE]

LoadKeys(d, t) ==
  LET r == dag[d] IN
  /\ t.kind = "keys"
  /\ r.libs + t.libs <= MaxLibs
  /\ \/ Ends("loadKeys", d, "returns", Loaded(r, t))
     \/ /\ t.public # None \/ t.secret # None
        /\ IF Concrete THEN Ends("loadKeys", d, "crashes", r)
           ELSE Ends("loadKeys", d, "throws", Refused(r, t))
  /\ Keeps

\* serializeInputInfo, serializeOutputInfo
InputText(r) == [kind |-> "input", inputs |-> r.inputs]
OutputText(r) == [kind |-> "output", outputs |-> r.outputs]

SaveInput(d) ==
  LET r == dag[d] IN
  \/ /\ r.inputs = NoInputs
     /\ Ends("saveInput", d, "throws", r)
     /\ Keeps
  \/ /\ r.inputs # NoInputs
     /\ Saves("saveInput", d, r, InputText(r))

LoadInput(d, t, replace) ==
  LET r == dag[d] IN
  /\ t.kind = "input"
  /\ IF r.adapter
     THEN Ends("loadInput", d, "returns", WithInputs(r, t.inputs, replace))
     ELSE Ends("loadInput", d, "throws", r)
  /\ Keeps

\* deserializeOutputInfo
WithOutputs(r, outputs) == [r EXCEPT !.outputs = outputs]

SaveOutput(d) ==
  LET r == dag[d] IN
  \/ /\ r.outputs = NoOutputs
     /\ Ends("saveOutput", d, "throws", r)
     /\ Keeps
  \/ /\ r.outputs # NoOutputs
     /\ Saves("saveOutput", d, r, OutputText(r))

(* OpenFHE writes an empty valuation as an empty string, which is an error *)
(* code that the caller does not see.                                      *)
LoadOutput(d, t) ==
  LET r == dag[d]
      blank == library = "OpenFHE" /\ IsEmpty(t.outputs)
  IN  /\ t.kind = "output"
      /\ IF blank /\ r.decided THEN Ends("loadOutput", d, "returns", r)
         ELSE IF r.adapter
         THEN Ends("loadOutput", d, "returns", WithOutputs(r, t.outputs))
         ELSE Ends("loadOutput", d, "throws", r)
      /\ Keeps

Values == [Name -> 0 .. MaxVersion]

\* A call on a Dag; after a null pointer there is none.
Call(d) ==
  /\ last.how # "crashes"
  /\ \/ CompileDag(d) \/ GenKeys(d) \/ ExeDag(d) \/ DecryptOutput(d)
     \/ SaveInput(d) \/ SaveOutput(d)
     \/ \E values \in Values, replace \in BOOLEAN : EncryptInput(d, values, replace)
     \/ \E want \in Para : SaveDag(d, want) \/ SaveKeys(d, want)
     \/ \E t \in texts : \/ LoadDag(d, t) \/ LoadKeys(d, t) \/ LoadOutput(d, t)
                         \/ \E replace \in BOOLEAN : LoadInput(d, t, replace)

Next == \E d \in Handle : Call(d)

Spec == Init /\ [][Next]_vars
-----------------------------------------------------------------------------
Key == None .. MaxKey
Inputs == [Name -> [key : Key, version : 0 .. MaxVersion]]

Sessions == [nodes : {"none", "source", "compiled", "broken"},
             decided : BOOLEAN, libs : 0 .. MaxLibs, adapter : BOOLEAN,
             params : BOOLEAN, sig : BOOLEAN, public : Key, secret : Key,
             inputs : Inputs, outputs : [by : Key, of : Inputs]]

TypeOK ==
  /\ library \in Libraries
  /\ dag \in [Handle -> Sessions]
  /\ keys \in Key
  /\ last.how \in {"returns", "throws", "crashes"}

(* The two contexts of a session are of one generation, whatever texts of  *)
(* whatever other sessions were loaded into it: that is why                *)
(* deserializeAloInfo replaces the pair even if it was given a half.       *)
PairedKeys ==
  \A d \in Handle : dag[d].public # None /\ dag[d].secret # None
                      => dag[d].public = dag[d].secret

(* The calls that test m_libs only (generateKeys, encryptInput, executor   *)
(* and getDecryptOutput have no checkAdapter) do not meet a null adapter,  *)
(* after a failed compilation or a refused text either.                    *)
AdapterForLibs ==
  \A d \in Handle : dag[d].libs > 0 => dag[d].decided /\ dag[d].adapter

(* A call that throws, other than compileDag, has not lost a key, an input *)
(* or an output, so that the caller can go on with what was there.         *)
FailureKeepsSession ==
  [][last'.how = "throws" /\ last'.call # "compileDag" =>
       \A d \in Handle : \A f \in {"params", "sig", "public", "secret", "inputs", "outputs"} :
          dag'[d][f] = dag[d][f]]_vars

=============================================================================
