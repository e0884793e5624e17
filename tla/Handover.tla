----------------------------- MODULE Handover -----------------------------
(***************************************************************************)
(* The division of work that query.cpp and serialization.cpp show on three *)
(* Dags: one compiles and executes, one generates the keys and encrypts,   *)
(* one decrypts.  What they exchange are the texts of Session.  In these   *)
(* examples the calls follow each other in one function; here each party   *)
(* goes on as soon as it can, a text arrives whenever it likes and as      *)
(* often as it likes, and the inputs are encrypted one by one.             *)
(***************************************************************************)
EXTENDS Session

CONSTANTS Server, Owner, Reader

ASSUME PartiesAssumption ==
  /\ Handle = {Server, Owner, Reader} /\ Cardinality(Handle) = 3
  /\ Builder = {Server}
  /\ MaxVersion > 0

\* The examples divide the work for SEAL and OpenFHE.  (A text that Concrete
\* refuses ends the program.)
ASSUME LatticeAssumption == "Concrete" \notin Libraries

Has(outputs) == outputs # NoOutputs /\ ~IsEmpty(outputs)
Only(n) == [m \in Name |-> IF m = n THEN 1 ELSE 0]
Returns == last'.how = "returns"

ServerCompiles == CompileDag(Server) /\ Returns
\* Published before the keys arrive: the server loads none into its Dag until then.
ServerPublishes(want) ==
  dag[Server].nodes = "compiled" /\ dag[Server].public = None /\ SaveDag(Server, want)
ServerPublishesSignature == ServerPublishes({"sig"})
ServerPublishesParameters == ServerPublishes({"params", "sig"})

OwnerLoadsDag ==
  /\ ~dag[Owner].decided
  /\ \E t \in texts : t.kind = "dag" /\ t.params /\ LoadDag(Owner, t)
OwnerGenerates == dag[Owner].decided /\ dag[Owner].secret = None /\ GenKeys(Owner)
OwnerSharesPublic == dag[Owner].public # None /\ SaveKeys(Owner, {"exe"})
OwnerSharesSecret == dag[Owner].secret # None /\ SaveKeys(Owner, {"decrypt"})
OwnerEncrypts(n) ==
  /\ dag[Owner].public # None
  /\ dag[Owner].inputs[n] = Absent
  /\ EncryptInput(Owner, Only(n), FALSE)
OwnerSendsInput == dag[Owner].inputs # NoInputs /\ SaveInput(Owner)

ServerLoadsKeys ==
  \E t \in texts : t.kind = "keys" /\ t.public # None /\ LoadKeys(Server, t) /\ Returns
ServerLoadsInput(n) ==
  \E t \in texts : t.kind = "input" /\ t.inputs[n] # Absent /\ LoadInput(Server, t, FALSE)
(* Tried with what is there; it throws until all inputs are, and nobody    *)
(* sees that one has failed: an empty result is sent, too.                 *)
ServerExecutes ==
  dag[Server].public # None /\ dag[Server].inputs # NoInputs /\ ExeDag(Server)
ServerDelivers == ServerExecutes /\ Has(dag'[Server].outputs)
ServerSendsOutput == dag[Server].outputs # NoOutputs /\ SaveOutput(Server)

ReaderLoadsDag ==
  /\ ~dag[Reader].decided
  /\ \E t \in texts : t.kind = "dag" /\ LoadDag(Reader, t)
ReaderLoadsKeys ==
  /\ dag[Reader].decided
  /\ \E t \in texts : t.kind = "keys" /\ t.secret # None /\ LoadKeys(Reader, t) /\ Returns
ReaderLoadsOutput ==
  /\ dag[Reader].decided
  /\ \E t \in texts : t.kind = "output" /\ LoadOutput(Reader, t)
ReaderDecrypts ==
  dag[Reader].secret # None /\ dag[Reader].outputs # NoOutputs /\ DecryptOutput(Reader)

ServerMoves ==
  \/ ServerCompiles \/ ServerPublishesSignature \/ ServerPublishesParameters
  \/ ServerLoadsKeys \/ (\E n \in Name : ServerLoadsInput(n))
  \/ ServerExecutes \/ ServerSendsOutput
OwnerMoves ==
  \/ OwnerLoadsDag \/ OwnerGenerates \/ OwnerSharesPublic \/ OwnerSharesSecret
  \/ (\E n \in Name : OwnerEncrypts(n)) \/ OwnerSendsInput
ReaderMoves ==
  ReaderLoadsDag \/ ReaderLoadsKeys \/ ReaderLoadsOutput \/ ReaderDecrypts

HandoverNext == last.how # "crashes" /\ (ServerMoves \/ OwnerMoves \/ ReaderMoves)

(* Each party makes the calls of the example that it can make, every text  *)
(* arrives in the end, and an execution that has its inputs succeeds in    *)
(* the end.  What succeeded may be undone by a later execution that fails, *)
(* or by an empty result that arrives: who tries again and again sends,    *)
(* and decrypts, at some time when there is a result (strong fairness).    *)
(* The library itself schedules nothing.                                   *)
HandoverFairness ==
  /\ WF_vars(ServerCompiles)
  /\ WF_vars(ServerPublishesSignature) /\ WF_vars(ServerPublishesParameters)
  /\ WF_vars(OwnerLoadsDag) /\ WF_vars(OwnerGenerates)
  /\ WF_vars(OwnerSharesPublic) /\ WF_vars(OwnerSharesSecret)
  /\ \A n \in Name : WF_vars(OwnerEncrypts(n)) /\ WF_vars(ServerLoadsInput(n))
  /\ WF_vars(OwnerSendsInput)
  /\ WF_vars(ServerLoadsKeys)
  /\ WF_vars(ServerDelivers)
  /\ SF_vars(Has(dag[Server].outputs) /\ ServerSendsOutput)
  /\ WF_vars(ReaderLoadsDag) /\ WF_vars(ReaderLoadsKeys)
  /\ WF_vars(ReaderLoadsOutput /\ Has(dag'[Reader].outputs))
  /\ SF_vars(Has(dag[Reader].outputs) /\ ReaderDecrypts)

HandoverSpec == Init /\ [][HandoverNext]_vars /\ HandoverFairness
-----------------------------------------------------------------------------
(* In the order of the examples no party meets a null pointer, however the *)
(* others are interleaved with it and however often a text arrives: loading *)
(* keys into a Dag leaves its signature, its inputs and its outputs.       *)
NoCrash == last.how # "crashes"

(* A decryption that returns gives the values of all inputs: an execution  *)
(* that started before the last input had arrived has no outputs.          *)
ReadsRight ==
  last.call = "decryptOutput" /\ last.how = "returns" => last.plain = [n \in Name |-> 1]

(* The result is read in the end, although inputs come in several texts    *)
(* and executions are tried too early: an input that arrives is added to   *)
(* those that are there, and a failed execution takes nothing away.        *)
EventuallyRead == <>(last.call = "decryptOutput" /\ last.how = "returns")
=============================================================================
