--------------------------- MODULE Session_proofs ---------------------------
(***************************************************************************)
(* The two contexts of a session belong together, and the adapter is there *)
(* when the name of its library is, for any number of Dags, inputs, key    *)
(* generations and texts.  The induction needs the same of every text: it  *)
(* holds a pair or a half of one, and contexts only beside a name.         *)
(***************************************************************************)
EXTENDS Session, TLAPS

Contexts == [public : Key, secret : Key, libs : 0 .. MaxLibs, decided : BOOLEAN]

\* The part of a session or of a text that holds keys.
Paired(r) == r.public # None /\ r.secret # None => r.public = r.secret
Named(r) == r.libs > 0 => r.decided /\ r.adapter

SessionOK(r) == r \in Sessions /\ Paired(r) /\ Named(r)

ContextTexts ==
  [kind : {"dag", "keys"}, nodes : {"none", "source", "compiled", "broken"},
   decided : BOOLEAN, libs : 0 .. MaxLibs, params : BOOLEAN, sig : BOOLEAN,
   public : Key, secret : Key]

ContextTextOK(t) ==
  /\ t \in ContextTexts
  /\ Paired(t)
  /\ t.libs > 0 => t.decided
  /\ t.public # None \/ t.secret # None => t.libs > 0

TextOK(t) ==
  \/ ContextTextOK(t)
  \/ t \in [kind : {"input"}, inputs : Inputs]
  \/ t \in [kind : {"output"}, outputs : [by : Key, of : Inputs]]

Ways == {"returns", "throws", "crashes"}

IInv ==
  /\ library \in Libraries
  /\ dag \in [Handle -> Sessions]
  /\ \A d \in Handle : SessionOK(dag[d])
  /\ \A t \in texts : TextOK(t)
  /\ keys \in Key
  /\ last.how \in Ways

-----------------------------------------------------------------------------
LEMMA NothingTyped == None \in Key /\ NoInputs \in Inputs /\ NoOutputs \in [by : Key, of : Inputs]
<1>1. None \in Key
  BY BoundsAssumption DEF None, Key
<1>2. Absent \in [key : Key, version : 0 .. MaxVersion]
  BY <1>1, BoundsAssumption DEF Absent
<1>3. NoInputs \in Inputs
  BY <1>2 DEF NoInputs, Inputs
<1>4. NoOutputs \in [by : Key, of : Inputs]
  BY <1>1, <1>3 DEF NoOutputs
<1> QED
  BY <1>1, <1>3, <1>4

LEMMA FreshOK ==
  ASSUME NEW nodes \in {"none", "source", "compiled", "broken"}
  PROVE  SessionOK(Fresh(nodes))
<1>1. Fresh(nodes) \in Sessions
  BY NothingTyped, BoundsAssumption DEF Fresh, Sessions
<1> QED
  BY <1>1 DEF SessionOK, Paired, Named, Fresh, None

LEMMA InitOK == Init => IInv
<1> SUFFICES ASSUME Init PROVE IInv
  OBVIOUS
<1>1. \A d \in Handle : SessionOK(dag[d])
  BY FreshOK DEF Init
<1>2. dag \in [Handle -> Sessions]
  <2>1. dag = [d \in Handle |-> Fresh(IF d \in Builder THEN "source" ELSE "none")]
    BY DEF Init
  <2>2. \A d \in Handle : Fresh(IF d \in Builder THEN "source" ELSE "none") \in Sessions
    BY FreshOK DEF SessionOK
  <2> QED
    BY <2>1, <2>2
<1>3. keys \in Key /\ texts = {} /\ last.how \in Ways /\ library \in Libraries
  BY NothingTyped DEF Init, None, Ways
<1> QED
  BY <1>1, <1>2, <1>3 DEF IInv

\* A call that leaves a sound session and no text keeps the invariant.
LEMMA EndsOK ==
  ASSUME IInv, NEW call, NEW d \in Handle, NEW how \in Ways, NEW session,
         SessionOK(session), Ends(call, d, how, session),
         keys' \in Key, \A t \in texts' : TextOK(t)
  PROVE  IInv'
<1>1. dag \in [Handle -> Sessions] /\ \A e \in Handle : SessionOK(dag[e])
  BY DEF IInv
<1>2. dag' = [dag EXCEPT ![d] = session] /\ last'.how = how /\ library' = library
  BY DEF Ends
<1>3. session \in Sessions
  BY DEF SessionOK
<1>4. dag' \in [Handle -> Sessions]
  BY <1>1, <1>2, <1>3
<1>5. \A e \in Handle : SessionOK(dag'[e])
  BY <1>1, <1>2
<1>6. (\A e \in Handle : SessionOK(dag[e]))'
  BY <1>5 DEF SessionOK, Paired, Named, Sessions, Key, Inputs
<1>7. (\A t \in texts : TextOK(t))'
  BY DEF TextOK, ContextTextOK, ContextTexts, Paired, Key, Inputs
<1>8. (keys \in Key)' /\ (last.how \in Ways)' /\ (library \in Libraries)'
  BY <1>2 DEF Key, Ways, IInv
<1>9. (dag \in [Handle -> Sessions])'
  BY <1>4 DEF Sessions, Key, Inputs
<1> QED
  BY <1>6, <1>7, <1>8, <1>9 DEF IInv

-----------------------------------------------------------------------------
\* What a session becomes.
LEMMA LoadedOK ==
  ASSUME NEW r, SessionOK(r), NEW t, ContextTextOK(t), r.libs + t.libs <= MaxLibs
  PROVE  SessionOK(Loaded(r, t))
<1>1. r \in Sessions /\ t \in ContextTexts /\ Paired(t) /\ Named(r)
  BY DEF SessionOK, ContextTextOK
<1>2. r.libs + t.libs \in 0 .. MaxLibs
  BY <1>1, BoundsAssumption DEF Sessions, ContextTexts
<1>3. CASE t.libs = 0
  <2>1. Loaded(r, t) = [r EXCEPT !.decided = TRUE]
    BY <1>3 DEF Loaded
  <2>2. Loaded(r, t) \in Sessions
    BY <1>1, <2>1 DEF Sessions
  <2>3. Paired(Loaded(r, t)) /\ Named(Loaded(r, t))
    BY <1>1, <2>1 DEF Paired, Named, SessionOK, Sessions
  <2> QED
    BY <2>2, <2>3 DEF SessionOK
<1>4. CASE t.libs # 0
  <2> DEFINE named == WithAdapter([r EXCEPT !.decided = TRUE, !.libs = @ + t.libs])
  <2>1. named \in Sessions /\ named.decided /\ named.adapter
    BY <1>1, <1>2 DEF WithAdapter, Sessions
  <2> HIDE DEF named
  <2>2. SessionOK(WithKeys(named, t))
    BY <1>1, <2>1 DEF WithKeys, SessionOK, Paired, Named, Sessions, ContextTexts
  <2>3. SessionOK(WithText(named, t))
    <3>1. WithText(named, t) \in Sessions
      BY <1>1, <2>1 DEF WithText, WithCommon, Sessions, ContextTexts
    <3>2. WithText(named, t).public = t.public /\ WithText(named, t).secret = t.secret
      BY <2>1 DEF WithText, WithCommon, Sessions
    <3>3. WithText(named, t).decided /\ WithText(named, t).adapter
      BY <2>1 DEF WithText, WithCommon, Sessions
    <3> QED
      BY <1>1, <3>1, <3>2, <3>3 DEF SessionOK, Paired, Named
  <2>4. Loaded(r, t) = IF Concrete THEN WithKeys(named, t) ELSE WithText(named, t)
    BY <1>4 DEF Loaded, named
  <2> QED
    BY <2>2, <2>3, <2>4
<1> QED
  BY <1>3, <1>4

LEMMA RefusedOK ==
  ASSUME NEW r, SessionOK(r), NEW t, r.libs + 1 <= MaxLibs
  PROVE  SessionOK(Refused(r, t))
<1>1. r \in Sessions
  BY DEF SessionOK
<1>2. r.libs + 1 \in 0 .. MaxLibs
  BY <1>1, BoundsAssumption DEF Sessions
<1>3. Refused(r, t) \in Sessions
  BY <1>1, <1>2 DEF Refused, Sessions
<1>4. Paired(Refused(r, t)) /\ Named(Refused(r, t))
  BY <1>1 DEF Refused, Paired, Named, SessionOK, Sessions
<1> QED
  BY <1>3, <1>4 DEF SessionOK

LEMMA TextFromSessionOK ==
  ASSUME NEW r, SessionOK(r), NEW kind \in {"dag", "keys"}, NEW want
  PROVE  ContextTextOK(Text(kind, r, want))
<1> DEFINE t == Text(kind, r, want)
<1>1. r \in Sessions /\ Paired(r) /\ Named(r)
  BY DEF SessionOK
<1>2. t.public \in {None, r.public} /\ t.secret \in {None, r.secret} /\ t.libs = r.libs
      /\ t.decided = r.decided
  BY DEF Text
<1>3. t \in ContextTexts
  BY <1>1, NothingTyped DEF Text, ContextTexts, Sessions
<1>4. Paired(t)
  BY <1>1, <1>2 DEF Paired
<1>5. t.libs > 0 => t.decided
  BY <1>1, <1>2 DEF Named
<1>6. t.public # None \/ t.secret # None => t.libs > 0
  BY DEF Text
<1> QED
  BY <1>3, <1>4, <1>5, <1>6 DEF ContextTextOK

-----------------------------------------------------------------------------
\* The calls that make or change nothing but one session.
LEMMA CompileDagOK ==
  ASSUME IInv, NEW d \in Handle, CompileDag(d)
  PROVE  IInv'
<1> DEFINE begun == Begun(dag[d])
<1>1. keys' \in Key /\ \A t \in texts' : TextOK(t)
  BY DEF IInv, CompileDag, Keeps
<1>2. begun \in Sessions /\ begun.public = None /\ begun.libs = 0 /\ begun.decided
  <2>1. Fresh("broken") \in Sessions
    BY FreshOK DEF SessionOK
  <2> QED
    BY <2>1 DEF Begun, Sessions, Fresh
<1> HIDE DEF begun
<1> DEFINE made == [Compiled(WithAdapter(begun)) EXCEPT !.libs = @ + 1]
<1>3. SessionOK(made)
  <2>1. begun.libs + 1 \in 0 .. MaxLibs
    BY <1>2, BoundsAssumption
  <2>2. made \in Sessions
    BY <1>2, <2>1 DEF Compiled, WithParaAndSig, WithAdapter, Sessions
  <2>3. made.public = None /\ made.decided /\ made.adapter
    BY <1>2 DEF Compiled, WithParaAndSig, WithAdapter, Sessions
  <2> QED
    BY <2>2, <2>3 DEF SessionOK, Paired, Named
<1>4. SessionOK(begun) /\ SessionOK(WithAdapter(begun))
  <2>1. WithAdapter(begun) \in Sessions
    BY <1>2 DEF WithAdapter, Sessions
  <2>2. WithAdapter(begun).public = None /\ WithAdapter(begun).libs = 0
    BY <1>2 DEF WithAdapter, Sessions
  <2> QED
    BY <1>2, <2>1, <2>2 DEF SessionOK, Paired, Named
<1>5. CASE Ends("compileDag", d, "returns", made)
  <2> HIDE DEF made
  <2> QED
    BY <1>1, <1>3, <1>5, EndsOK DEF Ways
<1>6. CASE \E adapter \in BOOLEAN :
             Ends("compileDag", d, "throws", IF adapter THEN WithAdapter(begun) ELSE begun)
  <2>1. PICK adapter \in BOOLEAN :
          Ends("compileDag", d, "throws", IF adapter THEN WithAdapter(begun) ELSE begun)
    BY <1>6
  <2>2. SessionOK(IF adapter THEN WithAdapter(begun) ELSE begun)
    BY <1>4
  <2> QED
    BY <1>1, <2>1, <2>2, EndsOK DEF Ways
<1> QED
  BY <1>5, <1>6 DEF CompileDag, begun

LEMMA GenKeysOK ==
  ASSUME IInv, NEW d \in Handle, GenKeys(d)
  PROVE  IInv'
<1>1. SessionOK(dag[d])
  BY DEF IInv
<1>2. \A t \in texts' : TextOK(t)
  BY DEF IInv, GenKeys, Keeps
<1>3. keys' \in Key
  BY BoundsAssumption DEF IInv, GenKeys, Keeps, Key, None
<1>4. CASE \E how \in Ways : Ends("genKeys", d, how, dag[d])
  BY <1>1, <1>2, <1>3, <1>4, EndsOK
<1>5. CASE Ends("genKeys", d, "returns", Generated(dag[d], keys'))
  <2>1. SessionOK(Generated(dag[d], keys'))
    BY <1>1, <1>3 DEF Generated, SessionOK, Sessions, Paired, Named
  <2> QED
    BY <1>2, <1>3, <1>5, <2>1, EndsOK DEF Ways
<1> QED
  BY <1>4, <1>5 DEF GenKeys, Ways

LEMMA EncryptedTyped ==
  ASSUME NEW key \in Key, NEW values \in Values
  PROVE  Encrypted(key, values) \in Inputs
<1>1. Absent \in [key : Key, version : 0 .. MaxVersion]
  BY NothingTyped, BoundsAssumption DEF Absent
<1>2. \A n \in Name : values[n] \in 0 .. MaxVersion
  BY DEF Values
<1> QED
  BY <1>1, <1>2 DEF Encrypted, Inputs

LEMMA WithInputsOK ==
  ASSUME NEW r, SessionOK(r), NEW new \in Inputs, NEW replace \in BOOLEAN
  PROVE  SessionOK(WithInputs(r, new, replace))
<1> DEFINE given == IF replace THEN new ELSE Merge(r.inputs, new)
<1>1. r \in Sessions
  BY DEF SessionOK
<1>2. given \in Inputs
  BY <1>1 DEF Merge, Inputs, Sessions
<1>3. WithInputs(r, new, replace) = [r EXCEPT !.inputs = given]
  BY DEF WithInputs
<1> HIDE DEF given
<1> QED
  BY <1>1, <1>2, <1>3 DEF SessionOK, Sessions, Paired, Named

LEMMA EncryptInputOK ==
  ASSUME IInv, NEW d \in Handle, NEW values \in Values, NEW replace \in BOOLEAN,
         EncryptInput(d, values, replace)
  PROVE  IInv'
<1> DEFINE r == dag[d]
<1>1. SessionOK(r) /\ r.public \in Key /\ r.secret \in Key
  BY DEF IInv, SessionOK, Sessions
<1>2. keys' \in Key /\ \A t \in texts' : TextOK(t)
  BY DEF IInv, EncryptInput, Keeps
<1>3. CASE \E how \in Ways : Ends("encryptInput", d, how, r)
  BY <1>1, <1>2, <1>3, EndsOK
<1>4. CASE Ends("encryptInput", d, "returns",
                WithInputs(r, Encrypted(r.public, values), replace))
  <2>1. SessionOK(WithInputs(r, Encrypted(r.public, values), replace))
    BY <1>1, EncryptedTyped, WithInputsOK
  <2> QED
    BY <1>2, <1>4, <2>1, EndsOK DEF Ways
<1>5. CASE \E tooLarge \in BOOLEAN :
             Ends("encryptInput", d, "returns",
                  [r EXCEPT !.inputs = ConcreteEncrypted(r.secret, values, tooLarge)])
  <2>1. PICK tooLarge \in BOOLEAN :
          Ends("encryptInput", d, "returns",
               [r EXCEPT !.inputs = ConcreteEncrypted(r.secret, values, tooLarge)])
    BY <1>5
  <2> DEFINE given == ConcreteEncrypted(r.secret, values, tooLarge)
  <2>2. given \in Inputs
    BY <1>1, EncryptedTyped, NothingTyped DEF ConcreteEncrypted
  <2>3. Ends("encryptInput", d, "returns", [r EXCEPT !.inputs = given])
    BY <2>1
  <2> HIDE DEF given
  <2>4. SessionOK([r EXCEPT !.inputs = given])
    BY <1>1, <2>2 DEF SessionOK, Sessions, Paired, Named
  <2> QED
    BY <1>2, <2>3, <2>4, EndsOK DEF Ways
<1>6. CASE LatticeEncrypts(d, values, replace)
  BY <1>3, <1>4, <1>6 DEF LatticeEncrypts, Ways
<1>7. CASE ConcreteEncrypts(d, values)
  BY <1>3, <1>5, <1>7 DEF ConcreteEncrypts, Ways
<1> QED
  BY <1>6, <1>7 DEF EncryptInput

LEMMA ExeDagOK ==
  ASSUME IInv, NEW d \in Handle, ExeDag(d)
  PROVE  IInv'
<1> DEFINE r == dag[d]
<1>1. SessionOK(r) /\ r \in Sessions
  BY DEF IInv, SessionOK
<1>2. keys' \in Key /\ \A t \in texts' : TextOK(t)
  BY DEF IInv, ExeDag, Keeps
<1>3. CASE \E how \in Ways : Ends("exeDag", d, how, r)
  BY <1>1, <1>2, <1>3, EndsOK
<1>4. CASE Ends("exeDag", d, "returns", Executed(r))
  <2>1. [by |-> r.public, of |-> r.inputs] \in [by : Key, of : Inputs]
    BY <1>1 DEF Sessions
  <2>2. SessionOK(Executed(r))
    BY <1>1, <2>1 DEF Executed, SessionOK, Sessions, Paired, Named
  <2> QED
    BY <1>2, <1>4, <2>2, EndsOK DEF Ways
<1>5. CASE Ends("exeDag", d, "returns", ExecutedToNothing(r))
  <2>1. [by |-> r.public, of |-> NoInputs] \in [by : Key, of : Inputs]
    BY <1>1, NothingTyped DEF Sessions
  <2>2. SessionOK(ExecutedToNothing(r))
    BY <1>1, <2>1 DEF ExecutedToNothing, SessionOK, Sessions, Paired, Named
  <2> QED
    BY <1>2, <1>5, <2>2, EndsOK DEF Ways
<1> QED
  BY <1>3, <1>4, <1>5 DEF ExeDag, Ways

LEMMA DecryptOutputOK ==
  ASSUME IInv, NEW d \in Handle, DecryptOutput(d)
  PROVE  IInv'
<1>1. SessionOK(dag[d])
  BY DEF IInv
<1>2. keys' \in Key /\ \A t \in texts' : TextOK(t)
  BY DEF IInv, DecryptOutput, Keeps
<1>3. CASE \E how \in Ways : Ends("decryptOutput", d, how, dag[d])
  BY <1>1, <1>2, <1>3, EndsOK
<1>4. CASE UNCHANGED <<library, dag, texts, keys>> /\ last'.how = "returns"
  <2>1. (dag \in [Handle -> Sessions])' /\ (\A e \in Handle : SessionOK(dag[e]))'
    BY <1>4 DEF IInv, SessionOK, Paired, Named, Sessions, Key, Inputs
  <2>2. (\A t \in texts : TextOK(t))' /\ (keys \in Key)'
    BY <1>4 DEF IInv, TextOK, ContextTextOK, ContextTexts, Paired, Key, Inputs
  <2>3. (last.how \in Ways)' /\ (library \in Libraries)'
    BY <1>4 DEF Ways, IInv
  <2> QED
    BY <2>1, <2>2, <2>3 DEF IInv
<1> QED
  BY <1>3, <1>4 DEF DecryptOutput, Ways, Keeps

-----------------------------------------------------------------------------
\* The calls that save.
LEMMA SavesOK ==
  ASSUME IInv, NEW call, NEW d \in Handle, NEW session, SessionOK(session),
         NEW text, TextOK(text), Saves(call, d, session, text)
  PROVE  IInv'
<1>1. keys' \in Key
  BY DEF IInv, Saves
<1>2. \A t \in texts' : TextOK(t)
  BY DEF IInv, Saves
<1>3. Ends(call, d, "returns", session)
  BY DEF Saves
<1> QED
  BY <1>1, <1>2, <1>3, EndsOK DEF Ways

LEMMA SaveDagOK ==
  ASSUME IInv, NEW d \in Handle, NEW want, SaveDag(d, want)
  PROVE  IInv'
<1>1. SessionOK(dag[d])
  BY DEF IInv
<1>2. CASE Ends("saveDag", d, "throws", dag[d]) /\ Keeps
  BY <1>1, <1>2, EndsOK DEF IInv, Keeps, Ways
<1>3. CASE Saves("saveDag", d, dag[d], Text("dag", dag[d], want))
  <2>1. TextOK(Text("dag", dag[d], want))
    BY <1>1, TextFromSessionOK DEF TextOK
  <2> QED
    BY <1>1, <1>3, <2>1, SavesOK
<1> QED
  BY <1>2, <1>3 DEF SaveDag

LEMMA SaveKeysOK ==
  ASSUME IInv, NEW d \in Handle, NEW want, SaveKeys(d, want)
  PROVE  IInv'
<1> DEFINE r == [dag[d] EXCEPT !.decided = TRUE]
<1>1. SessionOK(r)
  BY DEF IInv, SessionOK, Sessions, Paired, Named
<1>2. CASE Ends("saveKeys", d, "throws", r) /\ Keeps
  BY <1>1, <1>2, EndsOK DEF IInv, Keeps, Ways
<1>3. CASE Saves("saveKeys", d, r, Text("keys", r, want))
  <2>1. TextOK(Text("keys", r, want))
    BY <1>1, TextFromSessionOK DEF TextOK
  <2> QED
    BY <1>1, <1>3, <2>1, SavesOK
<1> QED
  BY <1>2, <1>3 DEF SaveKeys

LEMMA SaveInputOK ==
  ASSUME IInv, NEW d \in Handle, SaveInput(d)
  PROVE  IInv'
<1>1. SessionOK(dag[d]) /\ dag[d].inputs \in Inputs
  BY DEF IInv, SessionOK, Sessions
<1>2. CASE Ends("saveInput", d, "throws", dag[d]) /\ Keeps
  BY <1>1, <1>2, EndsOK DEF IInv, Keeps, Ways
<1>3. CASE Saves("saveInput", d, dag[d], InputText(dag[d]))
  BY <1>1, <1>3, SavesOK DEF TextOK, InputText
<1> QED
  BY <1>2, <1>3 DEF SaveInput

LEMMA SaveOutputOK ==
  ASSUME IInv, NEW d \in Handle, SaveOutput(d)
  PROVE  IInv'
<1>1. SessionOK(dag[d]) /\ dag[d].outputs \in [by : Key, of : Inputs]
  BY DEF IInv, SessionOK, Sessions
<1>2. CASE Ends("saveOutput", d, "throws", dag[d]) /\ Keeps
  BY <1>1, <1>2, EndsOK DEF IInv, Keeps, Ways
<1>3. CASE Saves("saveOutput", d, dag[d], OutputText(dag[d]))
  BY <1>1, <1>3, SavesOK DEF TextOK, OutputText
<1> QED
  BY <1>2, <1>3 DEF SaveOutput

-----------------------------------------------------------------------------
\* The calls that load.
LEMMA ContextTextIs ==
  ASSUME NEW t, TextOK(t), t.kind \in {"dag", "keys"}
  PROVE  ContextTextOK(t)
BY DEF TextOK

LEMMA LoadDagOK ==
  ASSUME IInv, NEW d \in Handle, NEW t \in texts, LoadDag(d, t)
  PROVE  IInv'
<1>1. ContextTextOK(t) /\ t \in ContextTexts
  BY ContextTextIs DEF IInv, LoadDag, ContextTextOK
<1>2. SessionOK(Fresh(t.nodes)) /\ Fresh(t.nodes).libs = 0
  BY <1>1, FreshOK DEF ContextTexts, Fresh
<1>3. SessionOK(Loaded(Fresh(t.nodes), t))
  BY <1>1, <1>2, LoadedOK, BoundsAssumption DEF ContextTexts
<1>4. Ends("loadDag", d, "returns",
           IF t.decided THEN Loaded(Fresh(t.nodes), t) ELSE Fresh(t.nodes)) /\ Keeps
  BY DEF LoadDag
<1> QED
  BY <1>2, <1>3, <1>4, EndsOK DEF IInv, Keeps, Ways

LEMMA LoadKeysOK ==
  ASSUME IInv, NEW d \in Handle, NEW t \in texts, LoadKeys(d, t)
  PROVE  IInv'
<1>1. ContextTextOK(t) /\ t \in ContextTexts
  BY ContextTextIs DEF IInv, LoadKeys, ContextTextOK
<1>2. SessionOK(dag[d]) /\ dag[d].libs \in Nat /\ t.libs \in Nat
  BY <1>1 DEF IInv, SessionOK, Sessions, ContextTexts
<1>3. dag[d].libs + t.libs <= MaxLibs /\ Keeps
  BY DEF LoadKeys
<1>4. CASE Ends("loadKeys", d, "returns", Loaded(dag[d], t))
  BY <1>1, <1>2, <1>3, <1>4, LoadedOK, EndsOK DEF IInv, Keeps, Ways
<1>5. CASE (t.public # None \/ t.secret # None)
           /\ Ends("loadKeys", d, "throws", Refused(dag[d], t))
  <2>1. dag[d].libs + 1 <= MaxLibs
    BY <1>1, <1>2, <1>3, <1>5, BoundsAssumption DEF ContextTextOK
  <2>2. SessionOK(Refused(dag[d], t))
    BY <1>2, <2>1, RefusedOK
  <2> QED
    BY <1>3, <1>5, <2>2, EndsOK DEF IInv, Keeps, Ways
<1>6. CASE Ends("loadKeys", d, "crashes", dag[d])
  BY <1>2, <1>3, <1>6, EndsOK DEF IInv, Keeps, Ways
<1> QED
  BY <1>4, <1>5, <1>6 DEF LoadKeys

LEMMA LoadInputOK ==
  ASSUME IInv, NEW d \in Handle, NEW t \in texts, NEW replace \in BOOLEAN,
         LoadInput(d, t, replace)
  PROVE  IInv'
<1> DEFINE r == dag[d]
<1>1. SessionOK(r) /\ r \in Sessions /\ Keeps
  BY DEF IInv, SessionOK, LoadInput
<1>2. t.inputs \in Inputs
  BY DEF IInv, LoadInput, TextOK, ContextTextOK, ContextTexts
<1>4. SessionOK(WithInputs(r, t.inputs, replace))
  BY <1>1, <1>2, WithInputsOK
<1>5. CASE Ends("loadInput", d, "throws", r)
  BY <1>1, <1>5, EndsOK DEF IInv, Keeps, Ways
<1>6. CASE Ends("loadInput", d, "returns", WithInputs(r, t.inputs, replace))
  BY <1>1, <1>4, <1>6, EndsOK DEF IInv, Keeps, Ways
<1> QED
  BY <1>5, <1>6 DEF LoadInput

LEMMA LoadOutputOK ==
  ASSUME IInv, NEW d \in Handle, NEW t \in texts, LoadOutput(d, t)
  PROVE  IInv'
<1> DEFINE r == dag[d]
<1>1. SessionOK(r) /\ r \in Sessions /\ Keeps
  BY DEF IInv, SessionOK, LoadOutput
<1>2. t.outputs \in [by : Key, of : Inputs]
  BY DEF IInv, LoadOutput, TextOK, ContextTextOK, ContextTexts
<1>3. SessionOK(WithOutputs(r, t.outputs))
  BY <1>1, <1>2 DEF WithOutputs, SessionOK, Sessions, Paired, Named
<1>4. CASE \E how \in Ways : Ends("loadOutput", d, how, r)
  BY <1>1, <1>4, EndsOK DEF IInv, Keeps, Ways
<1>5. CASE Ends("loadOutput", d, "returns", WithOutputs(r, t.outputs))
  BY <1>1, <1>3, <1>5, EndsOK DEF IInv, Keeps, Ways
<1> QED
  BY <1>4, <1>5 DEF LoadOutput, Ways

-----------------------------------------------------------------------------
LEMMA StutterOK ==
  ASSUME IInv, UNCHANGED vars
  PROVE  IInv'
BY DEF IInv, vars, SessionOK, Paired, Named, Sessions, TextOK, ContextTextOK,
       ContextTexts, Key, Inputs, Ways

LEMMA NextOK ==
  ASSUME IInv, [Next]_vars
  PROVE  IInv'
<1>1. CASE UNCHANGED vars
  BY <1>1, StutterOK
<1>2. CASE Next
  <2>1. PICK d \in Handle : Call(d)
    BY <1>2 DEF Next
  <2>2. CASE CompileDag(d) \/ GenKeys(d) \/ ExeDag(d) \/ DecryptOutput(d)
             \/ SaveInput(d) \/ SaveOutput(d)
    BY <2>2, CompileDagOK, GenKeysOK, ExeDagOK, DecryptOutputOK, SaveInputOK, SaveOutputOK
  <2>3. CASE \E values \in Values, replace \in BOOLEAN : EncryptInput(d, values, replace)
    BY <2>3, EncryptInputOK
  <2>4. CASE \E want \in Para : SaveDag(d, want) \/ SaveKeys(d, want)
    BY <2>4, SaveDagOK, SaveKeysOK
  <2>5. CASE \E t \in texts : \/ LoadDag(d, t) \/ LoadKeys(d, t) \/ LoadOutput(d, t)
                              \/ \E replace \in BOOLEAN : LoadInput(d, t, replace)
    BY <2>5, LoadDagOK, LoadKeysOK, LoadOutputOK, LoadInputOK
  <2> QED
    BY <2>1, <2>2, <2>3, <2>4, <2>5 DEF Call
<1> QED
  BY <1>1, <1>2

(* The invariant that the induction needs holds in every run of Session.   *)
THEOREM InvHolds == Spec => []IInv
<1>1. Init => IInv
  BY InitOK
<1>2. IInv /\ [Next]_vars => IInv'
  BY NextOK
<1> QED
  BY <1>1, <1>2, PTL DEF Spec

(* Sessions keep their type.                                               *)
THEOREM TypeCorrect == Spec => []TypeOK
<1>1. IInv => TypeOK
  BY DEF IInv, TypeOK, Ways
<1> QED
  BY <1>1, InvHolds, PTL

(* The public and the secret context of a session are of one generation    *)
(* (deserializeAloInfo replaces both or none), with any number of Dags,    *)
(* texts and generations.                                                  *)
THEOREM PairedHolds == Spec => []PairedKeys
<1>1. IInv => PairedKeys
  BY DEF IInv, PairedKeys, SessionOK, Paired
<1> QED
  BY <1>1, InvHolds, PTL

(* No call that tests m_libs only meets a null adapter.                    *)
THEOREM AdapterHolds == Spec => []AdapterForLibs
<1>1. IInv => AdapterForLibs
  BY DEF IInv, AdapterForLibs, SessionOK, Named
<1> QED
  BY <1>1, InvHolds, PTL

-----------------------------------------------------------------------------
Parts == {"params", "sig", "public", "secret", "inputs", "outputs"}

Kept ==
  last'.how = "throws" /\ last'.call # "compileDag" =>
    \A d \in Handle : \A f \in Parts : dag'[d][f] = dag[d][f]

\* A call keeps the session if it ends well, and if it leaves these parts alone.
LEMMA OtherEndKept ==
  ASSUME NEW call, NEW d \in Handle, NEW how, NEW r, Ends(call, d, how, r),
         how # "throws" \/ call = "compileDag"
  PROVE  Kept
BY DEF Ends, Kept

LEMMA ThrowKept ==
  ASSUME IInv, NEW call, NEW d \in Handle, NEW how, NEW r, Ends(call, d, how, r),
         \A f \in Parts : r[f] = dag[d][f]
  PROVE  Kept
<1>1. dag' = [dag EXCEPT ![d] = r]
  BY DEF Ends
<1>2. \A e \in Handle : dag'[e] = IF e = d THEN r ELSE dag[e]
  BY <1>1 DEF IInv
<1> QED
  BY <1>2 DEF Kept

\* A refused text brings a name and an adapter only.
LEMMA RefusedKept ==
  ASSUME NEW r \in Sessions, NEW t, NEW f \in Parts
  PROVE  Refused(r, t)[f] = r[f]
BY DEF Refused, Sessions, Parts

LEMMA StepKept ==
  ASSUME IInv, NEW d \in Handle, Call(d)
  PROVE  Kept
<1> DEFINE r == dag[d]
<1>1. r \in Sessions
  BY DEF IInv
<1>2. CASE CompileDag(d)
  BY <1>2, OtherEndKept DEF CompileDag
<1>3. CASE GenKeys(d)
  BY <1>3, OtherEndKept, ThrowKept DEF GenKeys
<1>4. CASE ExeDag(d)
  BY <1>4, OtherEndKept, ThrowKept DEF ExeDag
<1>5. CASE DecryptOutput(d)
  <2>1. CASE Ends("decryptOutput", d, "throws", r) \/ Ends("decryptOutput", d, "crashes", r)
    BY <2>1, OtherEndKept, ThrowKept
  <2>2. CASE last'.how = "returns"
    BY <2>2 DEF Kept
  <2> QED
    BY <1>5, <2>1, <2>2 DEF DecryptOutput
<1>6. CASE SaveInput(d) \/ SaveOutput(d)
  BY <1>6, OtherEndKept, ThrowKept DEF SaveInput, SaveOutput, Saves
<1>7. ASSUME NEW values \in Values, NEW replace \in BOOLEAN, EncryptInput(d, values, replace)
      PROVE  Kept
  <2>1. \/ Ends("encryptInput", d, "throws", r)
        \/ \E left : Ends("encryptInput", d, "returns", left)
    BY <1>7 DEF EncryptInput, LatticeEncrypts, ConcreteEncrypts
  <2>2. CASE Ends("encryptInput", d, "throws", r)
    BY <2>2, ThrowKept
  <2>3. CASE \E left : Ends("encryptInput", d, "returns", left)
    BY <2>3 DEF Ends, Kept
  <2> QED
    BY <2>1, <2>2, <2>3
<1>8. ASSUME NEW want \in Para, SaveDag(d, want) PROVE Kept
  BY <1>8, OtherEndKept, ThrowKept DEF SaveDag, Saves
<1>9. ASSUME NEW want \in Para, SaveKeys(d, want) PROVE Kept
  <2> DEFINE begun == [r EXCEPT !.decided = TRUE]
  <2>1. \A f \in Parts : begun[f] = r[f]
    BY <1>1 DEF Sessions, Parts
  <2>2. Ends("saveKeys", d, "throws", begun) \/ Ends("saveKeys", d, "returns", begun)
    BY <1>9 DEF SaveKeys, Saves
  <2> HIDE DEF begun
  <2>3. CASE Ends("saveKeys", d, "throws", begun)
    BY <2>1, <2>3, ThrowKept
  <2>4. CASE Ends("saveKeys", d, "returns", begun)
    BY <2>4 DEF Ends, Kept
  <2> QED
    BY <2>2, <2>3, <2>4
<1>10. ASSUME NEW t \in texts, LoadDag(d, t) \/ LoadOutput(d, t) PROVE Kept
  BY <1>10, OtherEndKept, ThrowKept DEF LoadDag, LoadOutput
<1>11. ASSUME NEW t \in texts, LoadKeys(d, t) PROVE Kept
  BY <1>1, <1>11, OtherEndKept, ThrowKept, RefusedKept DEF LoadKeys
<1>12. ASSUME NEW t \in texts, NEW replace \in BOOLEAN, LoadInput(d, t, replace)
       PROVE  Kept
  BY <1>12, OtherEndKept, ThrowKept DEF LoadInput
<1> QED
  BY <1>2, <1>3, <1>4, <1>5, <1>6, <1>7, <1>8, <1>9, <1>10, <1>11, <1>12 DEF Call

(* A call that throws has not lost a key, an input or an output, whatever  *)
(* was called and loaded before it; compileDag begins anew and may.        *)
THEOREM FailureKept == Spec => FailureKeepsSession
<1>1. ASSUME IInv, [Next]_vars
      PROVE  [last'.how = "throws" /\ last'.call # "compileDag" =>
                \A d \in Handle : \A f \in Parts : dag'[d][f] = dag[d][f]]_vars
  BY <1>1, StepKept DEF Next, Kept
<1> QED
  BY <1>1, InvHolds, PTL DEF Spec, FailureKeepsSession, Parts
=============================================================================
