--------------------------- MODULE Handover_proofs ---------------------------
(***************************************************************************)
(* The three parties do not meet a null pointer and the reader reads the   *)
(* right values, for any number of inputs and any bounds.  Each move is a  *)
(* step of Session, whose invariant is used; what is added says what each  *)
(* party, and each text on its way, can have.                              *)
(***************************************************************************)
EXTENDS Handover, Session_proofs, FiniteSetTheorems

\* There is one generation of keys; an input has one value.
Given == [key |-> 1, version |-> 1]
Right == [by |-> 1, of |-> [n \in Name |-> Given]]
Nothing == [by |-> 1, of |-> NoInputs]   \* what an execution that failed has left

InputsRight(inputs) == \A n \in Name : inputs[n] \in {Absent, Given}

HoldsRight(r) ==
  /\ r.public \in {None, 1} /\ r.secret \in {None, 1}
  /\ InputsRight(r.inputs)
  /\ r.outputs \in {NoOutputs, Nothing, Right}

ServerOK(r) == /\ r.secret = None
               /\ r.nodes = "compiled" => r.libs > 0 /\ r.sig
OwnerOK(r, k) == r.public = k /\ r.secret = k /\ (k > 0 => r.decided)
ReaderOK(r) == r.decided => r.sig

TextRight(t) ==
  /\ t.kind = "dag" => t.libs > 0 /\ t.sig /\ t.public = None /\ t.secret = None
  /\ t.kind = "keys" => /\ t.public \in {None, 1} /\ t.secret \in {None, 1}
                        /\ t.public # None => t.secret = None
  /\ t.kind = "input" => InputsRight(t.inputs)
  /\ t.kind = "output" => t.outputs \in {Nothing, Right}

PartiesInv ==
  /\ keys \in {0, 1}
  /\ \A d \in Handle : HoldsRight(dag[d])
  /\ ServerOK(dag[Server]) /\ OwnerOK(dag[Owner], keys) /\ ReaderOK(dag[Reader])
  /\ \A t \in texts : TextRight(t)
  /\ NoCrash
  /\ ReadsRight

-----------------------------------------------------------------------------
\* The three are different Dags.
LEMMA Parties ==
  /\ Server \in Handle /\ Owner \in Handle /\ Reader \in Handle
  /\ Server # Owner /\ Server # Reader /\ Owner # Reader
<1>1. Handle = {Server, Owner, Reader} /\ Cardinality(Handle) = 3
  BY PartiesAssumption
<1>2. ASSUME NEW a, NEW b, Handle = {a, b} PROVE FALSE
  <2>1. IsFiniteSet({a}) /\ Cardinality({a}) = 1
    BY FS_Singleton
  <2>2. Cardinality({a} \cup {b}) = IF b \in {a} THEN Cardinality({a}) ELSE Cardinality({a}) + 1
    BY <2>1, FS_AddElement
  <2>3. {a} \cup {b} = Handle
    BY <1>2
  <2> QED
    BY <1>1, <2>1, <2>2, <2>3
<1>3. Server = Owner => Handle = {Owner, Reader}
  BY <1>1
<1>4. Server = Reader => Handle = {Owner, Reader}
  BY <1>1
<1>5. Owner = Reader => Handle = {Server, Reader}
  BY <1>1
<1> QED
  BY <1>1, <1>2, <1>3, <1>4, <1>5

\* The library is SEAL or OpenFHE.
LEMMA Lattice == IInv => ~Concrete
  BY LatticeAssumption DEF IInv, Concrete

(* A call that crashes nothing, decrypts nothing and leaves its party and  *)
(* the texts right keeps the invariant.                                    *)
LEMMA PartyEnds ==
  ASSUME IInv, PartiesInv, NEW call, NEW d \in Handle, NEW how, NEW r,
         Ends(call, d, how, r), how # "crashes", call # "decryptOutput",
         HoldsRight(r), keys' \in {0, 1},
         d = Server => ServerOK(r), d = Reader => ReaderOK(r),
         IF d = Owner THEN OwnerOK(r, keys') ELSE keys' = keys,
         \A t \in texts' : TextRight(t)
  PROVE  PartiesInv'
<1>1. dag' = [dag EXCEPT ![d] = r] /\ last'.how = how /\ last'.call = call
  BY DEF Ends
<1>2. \A e \in Handle : dag'[e] = IF e = d THEN r ELSE dag[e]
  BY <1>1 DEF IInv
<1>3. (\A e \in Handle : HoldsRight(dag[e]))'
  BY <1>2 DEF PartiesInv, HoldsRight, InputsRight
<1>4. ServerOK(dag[Server])' /\ ReaderOK(dag[Reader])'
  BY <1>2, Parties DEF PartiesInv, ServerOK, ReaderOK
<1>5. OwnerOK(dag[Owner], keys)'
  BY <1>2, Parties DEF PartiesInv, OwnerOK
<1>6. (\A t \in texts : TextRight(t))'
  BY DEF TextRight, InputsRight
<1>7. NoCrash' /\ ReadsRight'
  BY <1>1 DEF NoCrash, ReadsRight
<1> QED
  BY <1>3, <1>4, <1>5, <1>6, <1>7 DEF PartiesInv

\* A call that leaves keys and texts alone.
LEMMA PartyKeeps ==
  ASSUME IInv, PartiesInv, NEW call, NEW d \in Handle, NEW how, NEW r,
         Ends(call, d, how, r), how # "crashes", call # "decryptOutput", Keeps,
         HoldsRight(r),
         d = Server => ServerOK(r), d = Reader => ReaderOK(r),
         d = Owner => OwnerOK(r, keys)
  PROVE  PartiesInv'
<1>1. keys' = keys /\ texts' = texts
  BY DEF Keeps
<1> QED
  BY <1>1, PartyEnds DEF PartiesInv

\* A party whose call ends without an effect.
LEMMA PartySame ==
  ASSUME IInv, PartiesInv, NEW call, NEW d \in Handle, NEW how,
         Ends(call, d, how, dag[d]), how # "crashes", call # "decryptOutput", Keeps
  PROVE  PartiesInv'
<1>1. HoldsRight(dag[d]) /\ (d = Server => ServerOK(dag[d]))
      /\ (d = Reader => ReaderOK(dag[d])) /\ (d = Owner => OwnerOK(dag[d], keys))
  BY DEF PartiesInv
<1> QED
  BY <1>1, PartyKeeps

\* A party saves what it has in a right text.
LEMMA PartySaves ==
  ASSUME IInv, PartiesInv, NEW call, NEW d \in Handle, NEW r, NEW text,
         Saves(call, d, r, text), call # "decryptOutput", TextRight(text),
         HoldsRight(r),
         d = Server => ServerOK(r), d = Reader => ReaderOK(r),
         d = Owner => OwnerOK(r, keys)
  PROVE  PartiesInv'
<1>1. keys' = keys /\ texts' = texts \cup {text} /\ Ends(call, d, "returns", r)
  BY DEF Saves
<1>2. \A t \in texts' : TextRight(t)
  BY <1>1 DEF PartiesInv
<1> QED
  BY <1>1, <1>2, PartyEnds DEF PartiesInv

\* Nothing encrypted and nothing computed is right.
LEMMA NothingRight == InputsRight(NoInputs) /\ NoOutputs \in {NoOutputs, Nothing, Right} /\ None = 0
  BY DEF InputsRight, NoInputs, None

-----------------------------------------------------------------------------
\* The server.
LEMMA ServerCompilesOK ==
  ASSUME IInv, PartiesInv, ServerCompiles
  PROVE  PartiesInv'
<1> DEFINE begun == Begun(dag[Server])
<1>1. /\ begun \in Sessions
      /\ begun.public = None /\ begun.secret = None /\ begun.libs = 0
      /\ begun.inputs = NoInputs /\ begun.outputs = NoOutputs
  <2>1. Fresh("broken") \in Sessions
    BY FreshOK DEF SessionOK
  <2> QED
    BY <2>1 DEF Begun, Sessions, Fresh
<1> HIDE DEF begun
<1> DEFINE r == [Compiled(WithAdapter(begun)) EXCEPT !.libs = @ + 1]
<1>2. Ends("compileDag", Server, "returns", r) /\ Keeps
  BY DEF ServerCompiles, CompileDag, Returns, Ends, begun
<1>3. /\ r.public = None /\ r.secret = None /\ r.libs = 1 /\ r.sig
      /\ r.inputs = NoInputs /\ r.outputs = NoOutputs
  <2>1. ~Concrete
    BY Lattice
  <2>2. Compiled(WithAdapter(begun)) =
          [begun EXCEPT !.adapter = TRUE, !.params = TRUE, !.sig = TRUE, !.nodes = "compiled"]
    BY <1>1, <2>1 DEF Compiled, WithParaAndSig, WithAdapter, Sessions
  <2> QED
    BY <1>1, <2>2 DEF Sessions
<1> HIDE DEF r
<1>4. HoldsRight(r) /\ ServerOK(r)
  BY <1>3, NothingRight DEF HoldsRight, ServerOK
<1> QED
  BY <1>2, <1>4, Parties, PartyKeeps

\* What the server publishes has a signature and no key.
LEMMA ServerPublishesOK ==
  ASSUME IInv, PartiesInv, NEW want, want = {"sig"} \/ want = {"params", "sig"},
         dag[Server].nodes = "compiled", SaveDag(Server, want)
  PROVE  PartiesInv'
<1> DEFINE r == dag[Server]
           t == Text("dag", r, want)
<1>1. CASE Ends("saveDag", Server, "throws", r) /\ Keeps
  BY <1>1, Parties, PartySame
<1>2. CASE Saves("saveDag", Server, r, t)
  <2>1. HoldsRight(r) /\ ServerOK(r)
    BY Parties DEF PartiesInv
  <2>2. TextRight(t)
    BY <2>1, Lattice DEF Text, TextRight, ServerOK, WantsPublic, WantsSecret
  <2> HIDE DEF t
  <2> QED
    BY <1>2, <2>1, <2>2, Parties, PartySaves
<1> QED
  BY <1>1, <1>2 DEF SaveDag

\* What loading a text into a session leaves of both.
LEMMA LoadedParts ==
  ASSUME NEW r \in Sessions, NEW t, t.libs \in Nat, ~Concrete
  PROVE  /\ Loaded(r, t).nodes = r.nodes
         /\ Loaded(r, t).inputs = r.inputs /\ Loaded(r, t).outputs = r.outputs
         /\ Loaded(r, t).decided
         /\ Loaded(r, t).libs = r.libs + t.libs
         /\ Loaded(r, t).sig = (r.sig \/ (t.libs # 0 /\ t.sig))
         /\ \/ Loaded(r, t).public = r.public /\ Loaded(r, t).secret = r.secret /\ t.libs = 0
            \/ Loaded(r, t).public = t.public /\ Loaded(r, t).secret = t.secret
<1>1. r.libs \in Nat /\ r.sig \in BOOLEAN
  BY DEF Sessions
<1> QED
  BY <1>1 DEF Loaded, WithText, WithCommon, WithAdapter, Sessions


\* A text of keys with a public context has no secret one.
LEMMA ServerLoadsKeysOK ==
  ASSUME IInv, PartiesInv, ServerLoadsKeys
  PROVE  PartiesInv'
<1> DEFINE r == dag[Server]
<1>1. PICK t \in texts : t.kind = "keys" /\ t.public # None /\ LoadKeys(Server, t) /\ Returns
  BY DEF ServerLoadsKeys
<1>2. r \in Sessions /\ HoldsRight(r) /\ ServerOK(r) /\ r.libs \in Nat
  BY Parties DEF IInv, PartiesInv, Sessions
<1>3. ContextTextOK(t) /\ t \in ContextTexts /\ t.libs \in Nat
  BY <1>1, ContextTextIs DEF IInv, ContextTextOK, ContextTexts
<1>4. TextRight(t) /\ t.public = 1 /\ t.secret = None /\ t.libs > 0
  BY <1>1, <1>3 DEF PartiesInv, TextRight, ContextTextOK
<1> DEFINE left == Loaded(r, t)
<1>5. Ends("loadKeys", Server, "returns", left) /\ Keeps
  BY <1>1 DEF LoadKeys, Returns, Ends
<1>6. /\ left.nodes = r.nodes /\ left.inputs = r.inputs /\ left.outputs = r.outputs
      /\ left.libs = r.libs + t.libs /\ (r.sig => left.sig)
      /\ left.public = 1 /\ left.secret = None
  <2>1. t.libs # 0
    BY <1>3, <1>4
  <2> HIDE DEF left
  <2>2. /\ left.nodes = r.nodes /\ left.inputs = r.inputs /\ left.outputs = r.outputs
        /\ left.libs = r.libs + t.libs /\ left.sig = (r.sig \/ (t.libs # 0 /\ t.sig))
    BY <1>2, <1>3, LoadedParts, Lattice DEF left
  <2>3. left.public = t.public /\ left.secret = t.secret
    BY <1>2, <1>3, <2>1, LoadedParts, Lattice DEF left
  <2> QED
    BY <1>4, <2>2, <2>3
<1> HIDE DEF left
<1>7. HoldsRight(left) /\ ServerOK(left)
  BY <1>2, <1>3, <1>6, NothingRight DEF HoldsRight, ServerOK
<1> QED
  BY <1>5, <1>7, Parties, PartyKeeps

\* Right inputs added to right inputs are right.
LEMMA MergeRight ==
  ASSUME NEW old, InputsRight(old), NEW new, InputsRight(new)
  PROVE  InputsRight(Merge(old, new))
BY DEF InputsRight, Merge

\* They leave everything else as it was.
LEMMA AddedRight ==
  ASSUME NEW r \in Sessions, HoldsRight(r), NEW new, InputsRight(new)
  PROVE  LET left == WithInputs(r, new, FALSE) IN
         /\ HoldsRight(left)
         /\ left.nodes = r.nodes /\ left.libs = r.libs /\ left.sig = r.sig
         /\ left.decided = r.decided
         /\ left.public = r.public /\ left.secret = r.secret
<1> DEFINE left == WithInputs(r, new, FALSE)
<1>1. /\ left.nodes = r.nodes /\ left.libs = r.libs /\ left.sig = r.sig
      /\ left.decided = r.decided
      /\ left.public = r.public /\ left.secret = r.secret /\ left.outputs = r.outputs
      /\ left.inputs = Merge(r.inputs, new)
  BY DEF WithInputs, Sessions
<1>2. InputsRight(left.inputs)
  BY <1>1, MergeRight DEF HoldsRight
<1> HIDE DEF left
<1>3. HoldsRight(left)
  BY <1>1, <1>2 DEF HoldsRight
<1> QED
  BY <1>1, <1>3 DEF left

\* The server adds an input that arrives.
LEMMA ServerLoadsInputOK ==
  ASSUME IInv, PartiesInv, NEW n \in Name, ServerLoadsInput(n)
  PROVE  PartiesInv'
<1> DEFINE r == dag[Server]
<1>1. PICK t \in texts : t.kind = "input" /\ LoadInput(Server, t, FALSE)
  BY DEF ServerLoadsInput
<1>2. r \in Sessions /\ HoldsRight(r) /\ ServerOK(r)
  BY Parties DEF IInv, PartiesInv
<1>3. InputsRight(t.inputs)
  BY <1>1 DEF PartiesInv, TextRight
<1> DEFINE left == WithInputs(r, t.inputs, FALSE)
<1>4. HoldsRight(left) /\ ServerOK(left)
  BY <1>2, <1>3, AddedRight DEF ServerOK
<1> HIDE DEF left
<1>5. CASE Ends("loadInput", Server, "throws", r) /\ Keeps
  BY <1>5, Parties, PartySame
<1>6. CASE Ends("loadInput", Server, "returns", left) /\ Keeps
  BY <1>4, <1>6, Parties, PartyKeeps
<1> QED
  BY <1>1, <1>5, <1>6 DEF LoadInput, left

\* An execution that returns had every input, under the one key, or has left nothing.
LEMMA ServerExecutesOK ==
  ASSUME IInv, PartiesInv, ServerExecutes
  PROVE  PartiesInv'
<1> DEFINE r == dag[Server]
<1>1. r \in Sessions /\ HoldsRight(r) /\ ServerOK(r)
  BY Parties DEF IInv, PartiesInv
<1>2. r.public # None /\ r.inputs # NoInputs /\ ExeDag(Server) /\ Keeps
  BY DEF ServerExecutes, ExeDag
<1>3. CASE Ends("exeDag", Server, "throws", r)
  BY <1>2, <1>3, Parties, PartySame
<1>4. CASE (\A n \in Name : r.inputs[n] # Absent) /\ Ends("exeDag", Server, "returns", Executed(r))
  <2>1. r.public = 1 /\ \A n \in Name : r.inputs[n] = Given
    BY <1>1, <1>2, <1>4 DEF HoldsRight, InputsRight
  <2>2. r.inputs = [n \in Name |-> Given]
    BY <1>1, <2>1 DEF Sessions, Inputs
  <2> DEFINE left == Executed(r)
  <2>3. left.outputs = Right
    BY <1>1, <2>1, <2>2 DEF Executed, Right, Sessions
  <2>4. left.inputs = r.inputs /\ left.public = r.public /\ left.secret = r.secret
        /\ left.nodes = r.nodes /\ left.libs = r.libs /\ left.sig = r.sig
    BY <1>1 DEF Executed, Sessions
  <2>5. Ends("exeDag", Server, "returns", left)
    BY <1>4
  <2> HIDE DEF left
  <2>6. HoldsRight(left) /\ ServerOK(left)
    BY <1>1, <2>3, <2>4 DEF HoldsRight, ServerOK
  <2> QED
    BY <1>2, <2>5, <2>6, Parties, PartyKeeps
<1>5. CASE Ends("exeDag", Server, "returns", ExecutedToNothing(r))
  <2> DEFINE left == ExecutedToNothing(r)
  <2>1. r.public = 1
    BY <1>1, <1>2 DEF HoldsRight
  <2>2. left.outputs = Nothing
    BY <1>1, <2>1 DEF ExecutedToNothing, Nothing, Sessions
  <2>3. left.inputs = r.inputs /\ left.public = r.public /\ left.secret = r.secret
        /\ left.nodes = r.nodes /\ left.libs = r.libs /\ left.sig = r.sig
    BY <1>1 DEF ExecutedToNothing, Sessions
  <2>4. Ends("exeDag", Server, "returns", left)
    BY <1>5
  <2> HIDE DEF left
  <2>5. HoldsRight(left) /\ ServerOK(left)
    BY <1>1, <2>2, <2>3 DEF HoldsRight, ServerOK
  <2> QED
    BY <1>2, <2>4, <2>5, Parties, PartyKeeps
<1> QED
  BY <1>2, <1>3, <1>4, <1>5 DEF ExeDag

\* The server sends only what an execution has left.
LEMMA ServerSendsOutputOK ==
  ASSUME IInv, PartiesInv, ServerSendsOutput
  PROVE  PartiesInv'
<1> DEFINE r == dag[Server]
<1>1. HoldsRight(r) /\ ServerOK(r)
  BY Parties DEF PartiesInv
<1>2. CASE Ends("saveOutput", Server, "throws", r) /\ Keeps
  BY <1>2, Parties, PartySame
<1>3. CASE r.outputs # NoOutputs /\ Saves("saveOutput", Server, r, OutputText(r))
  <2>1. TextRight(OutputText(r))
    BY <1>1, <1>3 DEF OutputText, TextRight, HoldsRight
  <2> QED
    BY <1>1, <1>3, <2>1, Parties, PartySaves
<1> QED
  BY <1>2, <1>3 DEF ServerSendsOutput, SaveOutput

-----------------------------------------------------------------------------
\* The owner of the inputs.
LEMMA LoadsDag ==
  ASSUME IInv, PartiesInv, NEW d \in Handle, NEW t \in texts, LoadDag(d, t)
  PROVE  LET left == Loaded(Fresh(t.nodes), t) IN
         /\ Ends("loadDag", d, "returns", left) /\ Keeps
         /\ HoldsRight(left) /\ left.decided /\ left.sig
         /\ left.public = None /\ left.secret = None
<1> DEFINE fresh == Fresh(t.nodes)
           left == Loaded(fresh, t)
<1>1. ContextTextOK(t) /\ t \in ContextTexts /\ t.kind = "dag"
  BY ContextTextIs DEF IInv, LoadDag, ContextTextOK
<1>2. t.libs > 0 /\ t.sig /\ t.public = None /\ t.secret = None /\ t.libs \in Nat
  BY <1>1 DEF PartiesInv, TextRight, ContextTexts
<1>3. t.decided /\ t.libs # 0
  BY <1>1, <1>2 DEF ContextTextOK
<1>4. fresh \in Sessions /\ fresh.inputs = NoInputs /\ fresh.outputs = NoOutputs
  BY <1>1, FreshOK DEF ContextTexts, SessionOK, Fresh
<1>5. Ends("loadDag", d, "returns", left) /\ Keeps
  BY <1>3 DEF LoadDag
<1> HIDE DEF fresh
<1>6. left.inputs = NoInputs /\ left.outputs = NoOutputs /\ left.decided
  BY <1>2, <1>4, LoadedParts, Lattice
<1>7. left.sig = (fresh.sig \/ (t.libs # 0 /\ t.sig))
  BY <1>2, <1>4, LoadedParts, Lattice
<1>8. left.public = None /\ left.secret = None
  BY <1>2, <1>3, <1>4, LoadedParts, Lattice
<1> HIDE DEF left
<1>9. left.sig
  BY <1>2, <1>3, <1>7
<1>10. HoldsRight(left)
  BY <1>6, <1>8, NothingRight DEF HoldsRight
<1> QED
  BY <1>5, <1>6, <1>8, <1>9, <1>10 DEF left, fresh

\* The owner loads a Dag before there is a key.
LEMMA OwnerLoadsDagOK ==
  ASSUME IInv, PartiesInv, OwnerLoadsDag
  PROVE  PartiesInv'
<1>1. PICK t \in texts : LoadDag(Owner, t)
  BY DEF OwnerLoadsDag
<1> DEFINE left == Loaded(Fresh(t.nodes), t)
<1>2. /\ Ends("loadDag", Owner, "returns", left) /\ Keeps
      /\ HoldsRight(left) /\ left.public = None /\ left.secret = None
  BY <1>1, LoadsDag, Parties
<1> HIDE DEF left
<1>3. keys = None
  BY DEF OwnerLoadsDag, PartiesInv, OwnerOK, None
<1>4. OwnerOK(left, keys)
  BY <1>2, <1>3 DEF OwnerOK, None
<1> QED
  BY <1>2, <1>4, Parties, PartyKeeps

\* The owner generates the one pair of keys.
LEMMA OwnerGeneratesOK ==
  ASSUME IInv, PartiesInv, OwnerGenerates
  PROVE  PartiesInv'
<1> DEFINE r == dag[Owner]
<1>1. r \in Sessions /\ HoldsRight(r) /\ OwnerOK(r, keys)
  BY Parties DEF IInv, PartiesInv
<1>2. r.decided /\ r.secret = None /\ GenKeys(Owner)
  BY DEF OwnerGenerates
<1>3. keys = 0
  BY <1>1, <1>2 DEF OwnerOK, None
<1>4. CASE \E how \in {"returns", "throws"} : Ends("genKeys", Owner, how, r) /\ Keeps
  BY <1>4, Parties, PartySame
<1>5. CASE /\ keys' = keys + 1 /\ UNCHANGED texts
           /\ Ends("genKeys", Owner, "returns", Generated(r, keys'))
  <2> DEFINE left == Generated(r, 1)
  <2>1. left.public = 1 /\ left.secret = 1 /\ left.decided
        /\ left.inputs = r.inputs /\ left.outputs = r.outputs
    BY <1>1, <1>2 DEF Generated, Sessions
  <2>2. keys' = 1 /\ Ends("genKeys", Owner, "returns", left)
    BY <1>3, <1>5
  <2> HIDE DEF left
  <2>3. HoldsRight(left) /\ OwnerOK(left, keys')
    BY <1>1, <2>1, <2>2 DEF HoldsRight, OwnerOK
  <2>4. \A t \in texts' : TextRight(t)
    BY <1>5 DEF PartiesInv
  <2> QED
    BY <2>2, <2>3, <2>4, Parties, PartyEnds
<1> QED
  BY <1>2, <1>4, <1>5 DEF GenKeys

\* The owner shares one half at a time.
LEMMA OwnerSharesOK ==
  ASSUME IInv, PartiesInv, NEW want, want = {"exe"} \/ want = {"decrypt"},
         dag[Owner].public # None, SaveKeys(Owner, want)
  PROVE  PartiesInv'
<1> DEFINE r == [dag[Owner] EXCEPT !.decided = TRUE]
           t == Text("keys", r, want)
<1>1. HoldsRight(dag[Owner]) /\ OwnerOK(dag[Owner], keys) /\ dag[Owner] \in Sessions
  BY Parties DEF IInv, PartiesInv
<1>2. HoldsRight(r) /\ OwnerOK(r, keys)
  BY <1>1 DEF HoldsRight, OwnerOK, Sessions
<1>3. CASE Ends("saveKeys", Owner, "throws", r) /\ Keeps
  <2> HIDE DEF r
  <2> QED
    BY <1>2, <1>3, Parties, PartyKeeps
<1>4. CASE Saves("saveKeys", Owner, r, t)
  <2>1. ~Concrete
    BY Lattice
  <2>2. /\ t.kind = "keys"
        /\ t.public \in {None, r.public} /\ t.secret \in {None, r.secret}
        /\ want = {"exe"} => t.secret = None
        /\ want = {"decrypt"} => t.public = None
    BY <2>1 DEF Text, WantsPublic, WantsSecret
  <2> HIDE DEF t
  <2>3. TextRight(t)
    BY <1>2, <2>2 DEF TextRight, HoldsRight
  <2> HIDE DEF r
  <2> QED
    BY <1>2, <1>4, <2>3, Parties, PartySaves
<1> QED
  BY <1>3, <1>4 DEF SaveKeys

\* One input's value encrypts to a right input.
LEMMA OneValue ==
  ASSUME NEW n \in Name
  PROVE  Only(n) \in Values /\ InputsRight(Encrypted(1, Only(n)))
<1>1. \A m \in Name : Only(n)[m] \in {0, 1}
  BY DEF Only
<1>2. Only(n) \in Values
  BY BoundsAssumption, PartiesAssumption DEF Only, Values
<1> QED
  BY <1>1, <1>2 DEF Encrypted, InputsRight, Given

\* The owner adds an encrypted input.
LEMMA OwnerEncryptsOK ==
  ASSUME IInv, PartiesInv, NEW n \in Name, OwnerEncrypts(n)
  PROVE  PartiesInv'
<1> DEFINE r == dag[Owner]
           new == Encrypted(r.public, Only(n))
           left == WithInputs(r, new, FALSE)
<1>1. r \in Sessions /\ HoldsRight(r) /\ OwnerOK(r, keys)
  BY Parties DEF IInv, PartiesInv
<1>2. r.public = 1 /\ Keeps /\ LatticeEncrypts(Owner, Only(n), FALSE)
  BY <1>1, Lattice DEF OwnerEncrypts, EncryptInput, HoldsRight
<1>3. InputsRight(new)
  BY <1>2, OneValue
<1>4. HoldsRight(left) /\ OwnerOK(left, keys)
  <2> HIDE DEF new
  <2> QED
    BY <1>1, <1>3, AddedRight DEF OwnerOK
<1>5. CASE \E how \in {"returns", "throws"} : Ends("encryptInput", Owner, how, r)
  BY <1>2, <1>5, Parties, PartySame
<1>6. CASE Ends("encryptInput", Owner, "returns", left)
  <2> HIDE DEF left
  <2> QED
    BY <1>2, <1>4, <1>6, Parties, PartyKeeps
<1> QED
  BY <1>2, <1>5, <1>6 DEF LatticeEncrypts

\* The owner sends the inputs encrypted so far.
LEMMA OwnerSendsInputOK ==
  ASSUME IInv, PartiesInv, OwnerSendsInput
  PROVE  PartiesInv'
<1> DEFINE r == dag[Owner]
<1>1. HoldsRight(r) /\ OwnerOK(r, keys)
  BY Parties DEF PartiesInv
<1>2. CASE Ends("saveInput", Owner, "throws", r) /\ Keeps
  BY <1>2, Parties, PartySame
<1>3. CASE Saves("saveInput", Owner, r, InputText(r))
  <2>1. TextRight(InputText(r))
    BY <1>1 DEF InputText, TextRight, HoldsRight
  <2> QED
    BY <1>1, <1>3, <2>1, Parties, PartySaves
<1> QED
  BY <1>2, <1>3 DEF OwnerSendsInput, SaveInput

-----------------------------------------------------------------------------
\* The reader of the output.
LEMMA ReaderLoadsDagOK ==
  ASSUME IInv, PartiesInv, ReaderLoadsDag
  PROVE  PartiesInv'
<1>1. PICK t \in texts : LoadDag(Reader, t)
  BY DEF ReaderLoadsDag
<1> DEFINE left == Loaded(Fresh(t.nodes), t)
<1>2. /\ Ends("loadDag", Reader, "returns", left) /\ Keeps
      /\ HoldsRight(left) /\ left.sig
  BY <1>1, LoadsDag, Parties
<1> HIDE DEF left
<1> QED
  BY <1>2, Parties, PartyKeeps DEF ReaderOK

\* The keys that arrive leave the reader its signature.
LEMMA ReaderLoadsKeysOK ==
  ASSUME IInv, PartiesInv, ReaderLoadsKeys
  PROVE  PartiesInv'
<1> DEFINE r == dag[Reader]
<1>1. PICK t \in texts : t.kind = "keys" /\ LoadKeys(Reader, t) /\ Returns
  BY DEF ReaderLoadsKeys
<1>2. r \in Sessions /\ HoldsRight(r) /\ r.sig
  BY Parties DEF IInv, PartiesInv, ReaderOK, ReaderLoadsKeys
<1>3. t.libs \in Nat
  BY <1>1, ContextTextIs DEF IInv, ContextTextOK, ContextTexts
<1>4. t.public \in {None, 1} /\ t.secret \in {None, 1}
  BY <1>1 DEF PartiesInv, TextRight
<1> DEFINE left == Loaded(r, t)
<1>5. Ends("loadKeys", Reader, "returns", left) /\ Keeps
  BY <1>1 DEF LoadKeys, Returns, Ends
<1> HIDE DEF left
<1>6. left.inputs = r.inputs /\ left.outputs = r.outputs
      /\ left.sig = (r.sig \/ (t.libs # 0 /\ t.sig))
  BY <1>2, <1>3, LoadedParts, Lattice DEF left
<1>7. \/ left.public = r.public /\ left.secret = r.secret
      \/ left.public = t.public /\ left.secret = t.secret
  BY <1>2, <1>3, LoadedParts, Lattice DEF left
<1>8. left.sig
  BY <1>2, <1>6
<1>9. HoldsRight(left) /\ ReaderOK(left)
  BY <1>2, <1>4, <1>6, <1>7, <1>8 DEF HoldsRight, ReaderOK
<1> QED
  BY <1>5, <1>9, Parties, PartyKeeps

\* The reader takes the outputs that arrive.
LEMMA ReaderLoadsOutputOK ==
  ASSUME IInv, PartiesInv, ReaderLoadsOutput
  PROVE  PartiesInv'
<1> DEFINE r == dag[Reader]
<1>1. PICK t \in texts : t.kind = "output" /\ LoadOutput(Reader, t)
  BY DEF ReaderLoadsOutput
<1>2. r \in Sessions /\ HoldsRight(r) /\ ReaderOK(r) /\ t.outputs \in {Nothing, Right}
  BY <1>1, Parties DEF IInv, PartiesInv, TextRight
<1> DEFINE left == WithOutputs(r, t.outputs)
<1>3. HoldsRight(left) /\ ReaderOK(left)
  BY <1>2 DEF WithOutputs, HoldsRight, ReaderOK, Sessions
<1> HIDE DEF left
<1>4. CASE (\E how \in {"returns", "throws"} : Ends("loadOutput", Reader, how, r)) /\ Keeps
  BY <1>4, Parties, PartySame
<1>5. CASE Ends("loadOutput", Reader, "returns", left) /\ Keeps
  BY <1>3, <1>5, Parties, PartyKeeps
<1> QED
  BY <1>1, <1>4, <1>5 DEF LoadOutput, left

\* What decrypts is given by the only key and of the right values.
LEMMA RightPlain == Plain(1, Right) = [n \in Name |-> 1]
BY DEF Plain, Right, Given

\* The reader decrypts with everything that takes.
LEMMA ReaderDecryptsOK ==
  ASSUME IInv, PartiesInv, ReaderDecrypts
  PROVE  PartiesInv'
<1> DEFINE r == dag[Reader]
<1>1. r \in Sessions /\ HoldsRight(r) /\ ReaderOK(r) /\ Named(r)
  BY Parties DEF IInv, PartiesInv, SessionOK
<1>2. r.secret # None /\ r.outputs # NoOutputs /\ DecryptOutput(Reader) /\ Keeps
  BY DEF ReaderDecrypts, DecryptOutput
<1>3. r.secret = 1 /\ (~IsEmpty(r.outputs) => r.outputs = Right)
  BY <1>1, <1>2 DEF HoldsRight, IsEmpty, Nothing
<1>4. r.libs > 0 => CanDecrypt(r)
  BY <1>1, <1>2 DEF ReaderOK, Named, CanDecrypt
<1>5. CASE Ends("decryptOutput", Reader, "throws", r)
  <2>1. dag' = dag /\ texts' = texts /\ keys' = keys
    BY <1>2, <1>5 DEF Ends, Keeps, IInv
  <2>2. NoCrash' /\ ReadsRight'
    BY <1>5 DEF Ends, NoCrash, ReadsRight
  <2> QED
    BY <2>1, <2>2 DEF PartiesInv, HoldsRight, ServerOK, OwnerOK, ReaderOK, TextRight, InputsRight
<1>6. CASE /\ ~IsEmpty(r.outputs)
           /\ UNCHANGED <<library, dag>>
           /\ last' = [call |-> "decryptOutput", how |-> "returns",
                       plain |-> Plain(r.secret, r.outputs)]
  <2>1. dag' = dag /\ texts' = texts /\ keys' = keys
    BY <1>2, <1>6 DEF Keeps
  <2>2. NoCrash' /\ ReadsRight'
    BY <1>3, <1>6, RightPlain DEF NoCrash, ReadsRight
  <2> QED
    BY <2>1, <2>2 DEF PartiesInv, HoldsRight, ServerOK, OwnerOK, ReaderOK, TextRight, InputsRight
<1> QED
  BY <1>2, <1>4, <1>5, <1>6 DEF DecryptOutput

-----------------------------------------------------------------------------
\* The parties begin with nothing.
LEMMA StartsRight == Init => PartiesInv
<1> SUFFICES ASSUME Init PROVE PartiesInv
  OBVIOUS
<1>1. keys = 0 /\ texts = {} /\ last.call = "none" /\ last.how = "returns"
  BY DEF Init
<1>2. \A d \in Handle : /\ dag[d].public = None /\ dag[d].secret = None
                        /\ dag[d].inputs = NoInputs /\ dag[d].outputs = NoOutputs
                        /\ ~dag[d].decided
                        /\ dag[d].nodes = IF d \in Builder THEN "source" ELSE "none"
  BY DEF Init, Fresh
<1>3. \A d \in Handle : HoldsRight(dag[d])
  BY <1>2, NothingRight DEF HoldsRight
<1>4. ServerOK(dag[Server]) /\ OwnerOK(dag[Owner], keys) /\ ReaderOK(dag[Reader])
  BY <1>1, <1>2, Parties DEF ServerOK, OwnerOK, ReaderOK, None
<1> QED
  BY <1>1, <1>3, <1>4 DEF PartiesInv, NoCrash, ReadsRight

\* Every move is a call of Session.
LEMMA MoveTyped ==
  ASSUME IInv, HandoverNext
  PROVE  IInv'
<1>1. Server \in Handle /\ Owner \in Handle /\ Reader \in Handle
  BY Parties
<1>2. CASE ServerMoves
  <2>1. CASE ServerCompiles \/ ServerExecutes \/ ServerSendsOutput
    BY <1>1, <2>1, CompileDagOK, ExeDagOK, SaveOutputOK
       DEF ServerCompiles, ServerExecutes, ServerSendsOutput
  <2>2. CASE ServerPublishesSignature \/ ServerPublishesParameters
    BY <1>1, <2>2, SaveDagOK DEF ServerPublishesSignature, ServerPublishesParameters, ServerPublishes
  <2>3. CASE ServerLoadsKeys \/ \E n \in Name : ServerLoadsInput(n)
    BY <1>1, <2>3, LoadKeysOK, LoadInputOK DEF ServerLoadsKeys, ServerLoadsInput
  <2> QED
    BY <1>2, <2>1, <2>2, <2>3 DEF ServerMoves
<1>3. CASE OwnerMoves
  <2>1. CASE OwnerLoadsDag \/ OwnerGenerates \/ OwnerSendsInput
    BY <1>1, <2>1, LoadDagOK, GenKeysOK, SaveInputOK
       DEF OwnerLoadsDag, OwnerGenerates, OwnerSendsInput
  <2>2. CASE OwnerSharesPublic \/ OwnerSharesSecret
    BY <1>1, <2>2, SaveKeysOK DEF OwnerSharesPublic, OwnerSharesSecret
  <2>3. ASSUME NEW n \in Name, OwnerEncrypts(n) PROVE IInv'
    BY <1>1, <2>3, OneValue, EncryptInputOK DEF OwnerEncrypts
  <2> QED
    BY <1>3, <2>1, <2>2, <2>3 DEF OwnerMoves
<1>4. CASE ReaderMoves
  BY <1>1, <1>4, LoadDagOK, LoadKeysOK, LoadOutputOK, DecryptOutputOK
     DEF ReaderMoves, ReaderLoadsDag, ReaderLoadsKeys, ReaderLoadsOutput, ReaderDecrypts
<1> QED
  BY <1>2, <1>3, <1>4 DEF HandoverNext

\* Every move leaves each party and each text right.
LEMMA MoveRight ==
  ASSUME IInv, PartiesInv, HandoverNext
  PROVE  PartiesInv'
<1>1. CASE ServerMoves
  <2>1. CASE ServerPublishesSignature \/ ServerPublishesParameters
    BY <2>1, ServerPublishesOK DEF ServerPublishesSignature, ServerPublishesParameters, ServerPublishes
  <2> QED
    BY <1>1, <2>1, ServerCompilesOK, ServerLoadsKeysOK, ServerLoadsInputOK,
       ServerExecutesOK, ServerSendsOutputOK DEF ServerMoves
<1>2. CASE OwnerMoves
  <2>1. CASE OwnerSharesPublic
    BY <2>1, OwnerSharesOK DEF OwnerSharesPublic
  <2>2. CASE OwnerSharesSecret
    <3>1. dag[Owner].public = dag[Owner].secret
      BY DEF PartiesInv, OwnerOK
    <3> QED
      BY <2>2, <3>1, OwnerSharesOK DEF OwnerSharesSecret
  <2> QED
    BY <1>2, <2>1, <2>2, OwnerLoadsDagOK, OwnerGeneratesOK, OwnerEncryptsOK,
       OwnerSendsInputOK DEF OwnerMoves
<1>3. CASE ReaderMoves
  BY <1>3, ReaderLoadsDagOK, ReaderLoadsKeysOK, ReaderLoadsOutputOK, ReaderDecryptsOK
     DEF ReaderMoves
<1> QED
  BY <1>1, <1>2, <1>3 DEF HandoverNext

\* A step that leaves everything as it is.
LEMMA PartiesStutter ==
  ASSUME PartiesInv, UNCHANGED vars
  PROVE  PartiesInv'
BY DEF PartiesInv, vars, HoldsRight, ServerOK, OwnerOK, ReaderOK, TextRight,
       InputsRight, NoCrash, ReadsRight

(* The sessions of the three parties are sound, and what each has and each *)
(* text brings is right.                                                   *)
THEOREM PartiesHold == HandoverSpec => [](IInv /\ PartiesInv)
<1>1. Init => IInv /\ PartiesInv
  BY InitOK, StartsRight
<1>2. IInv /\ PartiesInv /\ [HandoverNext]_vars => IInv' /\ PartiesInv'
  <2>1. CASE UNCHANGED vars
    BY <2>1, StutterOK, PartiesStutter
  <2>2. CASE HandoverNext
    BY <2>2, MoveTyped, MoveRight
  <2> QED
    BY <2>1, <2>2
<1> QED
  BY <1>1, <1>2, PTL DEF HandoverSpec

(* No party meets a null pointer, for any number of inputs and however the *)
(* moves of the three and the arrivals of their texts are interleaved.     *)
THEOREM NoCrashHolds == HandoverSpec => []NoCrash
<1>1. PartiesInv => NoCrash
  BY DEF PartiesInv
<1> QED
  BY <1>1, PartiesHold, PTL

(* What the reader decrypts are the values of all inputs, although an      *)
(* execution is tried before they have all arrived.                        *)
THEOREM ReadsRightHolds == HandoverSpec => []ReadsRight
<1>1. PartiesInv => ReadsRight
  BY DEF PartiesInv
<1> QED
  BY <1>1, PartiesHold, PTL

(* The party that executes never has a context that decrypts: neither its  *)
(* compilation nor any text that it loads brings one, whatever is shared   *)
(* and however often it arrives (serialization.cpp sends exe_ctx only).    *)
ServerBlind == dag[Server].secret = None

\* ServerBlind holds in every handover.
THEOREM ServerBlindHolds == HandoverSpec => []ServerBlind
<1>1. PartiesInv => ServerBlind
  BY DEF PartiesInv, ServerOK, ServerBlind
<1> QED
  BY <1>1, PartiesHold, PTL
=============================================================================
