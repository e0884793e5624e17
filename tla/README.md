# IYFC: a verification project

IYFC compiles and runs programs over encrypted numbers. A caller writes
expressions over named inputs; the library keeps them as a graph (a `Dag`), picks
an encryption library for it, rewrites the graph until that library can execute
it, makes keys, encrypts inputs, executes, and decrypts outputs. The modules in
this directory model the parts of that program whose correctness rests on
bookkeeping spread over many calls, check them with TLC on small instances, and
prove the most important invariants with TLAPS for every instance.

All paths below are relative to `src/iyfc/`.

## 1. Inventory

| part | files | state it keeps | operations |
| --- | --- | --- | --- |
| Node graph | `dag/node.*` | `m_operands` (strong), `m_uses` (raw), the root sets `m_sources`, `m_sinks` of the Dag | construct, destroy, add/erase/set/replace operands, replace uses |
| Dag | `dag/iyfc_dag.*` | nodes, named inputs and outputs, index counter, flags, scale, decision | `makeNode`, `makeInput`, `makeOutput`, setters, `doTranspile`, `genKey`, `encryptInput`, `executor`, save and load |
| Node maps | `dag/node_map.h` | a vector indexed by `m_index` | `at`, `get`, `set` |
| Dag group | `dag/iyfc_dag.*` (`DagGroup`) | children by name, one index pool and one scale for all | `addDag`, `makeNode`, `updateGroupIndex` |
| Traversal | `daghandler/traversal_handler.h` | stack, ready and processed maps | `forwardTraverse`, `backwardTraverse` |
| General passes | `daghandler/*` | a NodeMap each | clean, type, merge, balance, depth, out-degree, constant folding, rotation keys, u32 conversion |
| Executors | `seal/comm/*`, `openfhe/comm/*`, `concrete/concrete_executor.h` | a runtime object per node, remaining uses per node, an error flag | one visit per node; `execute`, `encrypt`, `decrypt` |
| Compile passes | `seal/alo/*`, `openfhe/alo/*` | scales, levels, number of polynomials per node | encode, rescale, relinearize, mod-switch, check, select parameters |
| Decision | `decision/alo_decision.*` | the chosen library and scheme, the depth | `InitDagForDecision`, `setAloName`, `deLibAndAlo`, `deGroupLibAndAlo` |
| Session | `decision/fhe_manager.*`, `decision/*_adapter.*`, `iyfc_include.*` | parameters, public and secret context, encrypted inputs and outputs | generate keys, encrypt, execute, decrypt, save and load parts |
| Expression builder | `dag/expr.*`, `util/math_util.*` | an `Expr` per node, strong; the base of comparisons, the number of rows | operators, comparison, conditions, rows, sums, counts, division, sort |
| Serialization | `proto/*`, `dag/node_attr.*`, `dag/constant_value.h` | none | graphs, keys, parameters, inputs, outputs to protobuf and back |
| Examples | `examples/*` | the parties' programs | queries, division, average, intersection; who holds which text |

How they interact. Everything is called on one thread; there are no locks and no
callbacks from outside. What interleaves is: a traversal with the rewriter that
changes the graph under it; the executor with the order in which the traversal
offers nodes, which comes from hash sets of pointers and is arbitrary; the
children of a group, which are built, added, grown and compiled in any order;
the calls of a client and a server that exchange saved parts of a session.
Parts share state in three ways: nodes point at each other and at the root sets
of their Dag; every pass keeps its results in vectors as long as the counter of
the Dag or of its group; the adapter of a session keeps the newest parameters,
keys, inputs and outputs, wherever they came from.

What is hard here: raw pointers and multiplicities kept in two places; roots and
predecessors that change during a traversal; objects that are computed in place
because their last use has come; errors reported by a flag that is looked at one
node later; a new node that a pass gives no scale or level, or one that is
already stale; counters of several Dags that have to move together; a scale that
a condition lowers after it was compared; keys and ciphertexts of different
generations in one session; slots beyond the ones a caller filled, which hold
copies in one library and zeros in another. Section 7 and `hazards` in
`PROJECT.json` list each of these at its line.

What makes each part correct:

- node graph: the two directions of every edge agree, root sets are exact,
  nothing refers to a node that is gone, what is saved is what is loaded;
- traversal: each node once, after its predecessors, none left behind;
- passes: the value of every output is kept; results are those of the graph that runs;
- compile passes: operands of an operation agree in scale and level, the
  validators of the source accept, the parameters are enough for the program;
- executors: every output with its value or none at all, whatever order is taken;
- group: no index belongs to two Dags, every node has a place in every map;
- decision: a library is chosen only for what it can carry;
- session: what is decrypted belongs to the inputs, keys and program at hand;
- expressions: what the caller decodes is what the query means on plain numbers.

## 2. Modules and how they compose

    GraphOps          edge bookkeeping as operators on a graph record
      NodeGraph       the graph as a state machine       NodeGraph_proofs
          GraphText   NodeGraph with DagText: a graph to its text and back
        DagText       the text of a graph, operators without a state
      Traversal       one step of a traversal            Graph_proofs
        DagPasses     the general passes                 DagPasses_proofs
        SchemePasses  the passes of the four transpilers, parameters, signatures
        Executor      the three executors  --implements-->  Dataflow
                                                         Executor_proofs
          CompiledPrograms   what an executor relies on
    Query             expressions, slot by slot
    AloChoice         the choice of a library            AloChoice_proofs
    DagGroup          groups  --implements-->  SharedPool    DagGroup_proofs
    Session           calls and texts of several Dags        Session_proofs
      Handover        three parties that divide the work
                                                         Handover_proofs

An `MC...` module gives the constants of a module their values for TLC; the
`.cfg` of a run has the run's name.

**GraphOps.** A node is its `m_index`; the record
`[alive, operands, uses, sources, sinks]` holds the live nodes, the two vectors
of every node as multiplicities, and the two root sets. One operator per method
of `Node`. The two directions of an edge are separate fields updated by
separate formulas, as in the code: that they agree is a property of NodeGraph,
not a consequence of the representation. The order of a vector's elements is
abstracted, none of these methods reads it.

**NodeGraph.** One action per factory function and per method that a pass or a
caller calls. A caller never asks for a cycle (`DependsOn`), because the methods
do not look for one; a pass rewires nodes that it reached, never one that the
clean pass removed (`retired`). `makeOutput` and `makeInput` with a name that is
taken register nothing: the second output dies at once, the second input when
its last `Expr` does (`DropInput`).

**DagText, GraphText.** What `proto/iyfc_serialization.cpp` does to a graph: the
walk that numbers the nodes from the sinks, a message per node with its operation,
its operands in the order of their vector and its attributes (kinds of values and
dense constants included), the tables of named inputs and outputs, and loading, which
makes the nodes again one by one and throws where the code does: for an operation
that is none, an operand that is not loaded yet, an attribute of another kind. A loop
is a recursive function of its turns. Of the operations only Input and Output are told
apart, the other seventeen are `Op`: nothing in the text depends on which one it is.
GraphText states `TextRoundTrip` of every graph that NodeGraph reaches, for every order
that the operand vectors may have (NodeGraph keeps multiplicities) and every order in
which the hash set may give the sinks: the walk ends, writes each node that was not
cleaned once and after its operands, loading does not throw, and operations, edges,
order of operands, attributes and names are those saved. Saving itself throws
(`indices.at`) when a named input or output was cleaned; its names are then not
asked for.
`AssignedAssumption` says which attributes code sets: of the kind of their key, and
constants that stand for some slots and have some values.

**Traversal.** `Advance` is one iteration of `DagTraversal::traverse`. The stack
is a set, since its contents are pushed in the order of unordered sets.

**DagPasses.** A program, a list of passes, and one step per visited node. Each
visit runs the pass's rewriter on the graph and then the rest of the traversal's
iteration. `MCPasses` is the sequence of `AloDecision::InitDagForDecision`,
followed by folding and by the release of the Dag. `VisitsEachOnce` also says
that a pass ends: it can make no more than `MaxNode` visits. Programs are what the
factory makes (`ProgramsAssumption`): the indices are given out one after the other,
a node's operands come before it, the leaves are the inputs and constants, and a sum
or a product is made of two. `PassesAssumption` is what `InitDagForDecision`
(`decision/alo_decision.cpp:41`) sees to: no reduction after an expansion, and a depth
is counted directly after the types were found again. What a node denotes is a member
of a set `Values` with a commutative sum and product (`ValuesAssumption`; the run takes
the numbers modulo 13). The two loops by which `ReductionLogExpander`
balances a sum are the recursive function `Turns`, a join or the change to the next
level per turn. `MaxNode` bounds the nodes that balancing and folding make, in the
guards of `ExpandVisit` and `FoldVisit`; with 14 no checked program reaches it.

**SchemePasses.** After the decision: the `transform()` of the CKKS and BFV
handlers of SEAL and of OpenFHE, pass after pass and visit by visit, with the
NodeMaps of scales and levels that the passes share; then the validators, the
parameters, the rotation keys and the signature that the handlers derive. The
checkers' conditions are operators (`ValidateSilent` says they find nothing);
what a library asks of operands is stated separately (`EncodesMatch`,
`RelinearizedInTime`), because the checkers do not cover all of it. Its
recursive definitions are functions over the nodes in order and `RECURSIVE`
operators, so that it has runs and no theorems.

**Dataflow, Executor.** Dataflow says what an execution promises: every node
computed once and after its operands, then all outputs with the value the
program denotes, or nothing. Executor is the rewriter `operator()` of
`SEALExecutor`, `OpenfheExecutor` and `ConcreteExecutor`, with `m_objects`, the
remaining uses `m_index2out`, the in-place reuse, the type checks, the error flag
and the exceptions; values are terms. The library is chosen in `Init`. Library
calls that may fail are `faults`, chosen when a run begins. `Implements` is the
refinement. Where the adapters agree, PROJECT.json's map names one of them for a
definition and the header of the module says that it stands for all.

**CompiledPrograms.** What an executor relies on and never tests: the operations
have their number of operands, no node depends on itself, every operand of a
ciphertext is encrypted or encoded, and (SEAL only) an output is the one use of
its operand. `CompiledAssumption` says so of the programs; it is what
Executor_proofs assumes, and TLC evaluates it for every program of `MCExecutor`,
whose module `MCCompiled` adds it to MCExecutor. The two findings about executors
are about programs without it, and their runs do not extend it.

**Query.** What `dag/expr.cpp` computes. A ciphertext is a vector of as many
slots as the library has (SEAL: twice the vector of the Dag, filled with copies;
OpenFHE: exactly the vector, filled with zeros), numbers are encoded digit by
digit as `iyfc_include.cpp` does, and the comparison polynomials, the conditions,
the selection of rows, sums, counts, division and the sort matrix are evaluated
on the slots. Slots are numbers modulo the prime 10007: it has the inverses of
every denominator in the source and, 9 dividing 10008, an element for the ninth
root of unity that the base 7 needs, so that an identity between polynomials is
checked exactly and rounding does not enter. The
division of `examples/div.cpp`, the blinded average of `examples/avg.cpp` and
the intersection of `examples/psi_bfv.cpp` use the same operators.

**AloChoice.** The flags and the scale that building an expression leaves in a
Dag, the scales of a group, and the comparison of the depth with what the
modulus of SEAL carries, with its unsigned difference and its division by zero.
Nothing limits what callers do: any scale, any number of conditions, children of any
scale. Its run is the finding of section 6; what holds nevertheless is proved.

**SharedPool, DagGroup.** DagGroup has the counters, indices, smallest indices
and scales of the children and of the group. SharedPool is what the comment on
the class promises. `Spec` has the calls that keep to the protocol of the
examples: nodes are added to a member through the group. `Reload`, which the
interface also allows, is in `ReloadingSpec`, because the group's invariants do
not survive it (section 6).

**Session, Handover.** A Dag after it is built: the decision, the names of its
libraries (`m_libs`), the adapter with parameters, signature, the two contexts,
inputs and outputs, each reduced to whether it is there and which key generation
and input values it belongs to. One action per call of `iyfc_include.h`, with
its ways to end: it returns, throws, or dereferences a null pointer. An execution
of SEAL or OpenFHE that fails in its last visit returns, with a valuation that has
no outputs (`ExecutedToNothing`), and such a valuation is saved, loaded and refused
by a decryption. What is merged is new for SEAL and OpenFHE, and old for Concrete,
whose `addValues` inserts (`Merge`). The texts
that the save calls make are state, and a load takes any of them. The library of
a behaviour is chosen in `Init`: SEAL and OpenFHE have the same control at this
level, Concrete has no parameters and no signature and encrypts with its secret
key. Session lets every caller do anything; Handover composes three Dags as
`examples/query.cpp` and `examples/serialization.cpp` do: one compiles and
executes, one owns the keys and encrypts, one decrypts. The examples call them in
one order; the module lets them go on independently, with texts that arrive
late, repeatedly and out of order, inputs that are encrypted one at a time,
executions that are tried too early, and results that are empty.

## 3. Runs

| run | question | bounds, and why they are enough |
| --- | --- | --- |
| `MCNodeGraph` | Do the edges and the root sets stay exact under every sequence of calls, and does each graph survive its text? | 4 nodes, operand vectors of up to two elements, repeated ones included, one name: enough for a node with two users, a user with a repeated operand, a duplicate name and a replaced node at once. Of each graph the texts for all orders of all operand vectors and of the sinks. The attributes of four nodes are given in four kinds of order, with an attribute set twice and dense constants of one and of several values |
| `MCDagPasses` | Do the passes visit each node once and in order, and keep the program? | all programs of three operations (sums, products, negations; operands repeated or not) with one or two outputs, and chains of four sums, whose five operands balance into two levels; up to 14 nodes, balancing included |
| `MCExecutor` | Does each executor implement Dataflow in every order of visits, with every single failing call and any subset of inputs bound? | SEAL: all programs with a raw operation, an encoding, two operations on ciphertexts and one or two outputs, each the only use of its operand (section 6 has the others). OpenFHE: outputs that share their operand with each other and with operations. Concrete: two operations, without the differences of section 6 |
| `MCSchemePasses` | Do the compiled programs pass the source's validators, agree in scale, relinearize in time, fit their parameters and compute what they did? | three operations, each of them used, over an input and a second input or constant of another scale (the child of a group); a second output for half of the CKKS programs; rotations both ways; the default and the strictest configuration, with a vector that fits and one that is too long for the degree |
| `MCQuery` | Is what the caller decodes what the query means? | tables of 8, 3, 2 and 1 rows for 8 places (full, padded, short), columns with equal numbers, numbers that differ in the first or in the last digit and zeros as in the padding; both bases; both ways to fill slots; a second condition joined with `and` or `or` |
| `MCDagGroup` | Do indices stay disjoint and the maps long enough? | 3 children, 5 indices, compilations that add up to 2 nodes: two children that were added meet a third one in every relation to their indices |
| `MCSession` | Does any order of calls and loads mix key generations, leave a library's name without its adapter, or lose something in a call that throws? | 2 Dags, one built by the caller, 2 key generations, 2 texts of two compositions (program with parameters, a pair of keys that may have a half only), one input with one value; SEAL and Concrete. Two generations and a text of each are what a mix-up needs |
| `MCHandover` | Does the reader decrypt the right values in the end? | 3 Dags, 2 inputs, SEAL and OpenFHE, every text the parties can make (the bound of 12 is not reached), keys loaded repeatedly (`MaxLibs` 4), executions that end with nothing, and their results sent and read |
| `MCExecutorShared`, `MCExecutorConcrete`, `MCDagGroupReload`, `MCAloChoice` | The findings of section 6, each a violation | `MCAloChoice`: two children and a group, no call of `setScale`, one use of a condition is enough; depths up to 15, on both sides of what the scales carry |

`CHECK_DEADLOCK FALSE` stands where the system may stop: a list of passes or an
execution that is over, an index counter at its bound, a graph of the largest
size, a caller who makes no further call.

What the properties say, beyond their comments in the modules:

- `ValuePreserved` and `ComputesProgram` compare the value of every output,
  modulo a prime, with that of the program as it was written; `ValuePreserved` also
  says that no output is lost before the Dag is released. `DeliversUnlessFaulty`
  is the other direction of `Implements`: an execution fails only for a call
  that failed or an input that is used and was not encrypted.
- `TypesExact`, `DepthExact`: the map that a later step reads is that of the
  graph it reads it for. A pass that changes the graph after the map was filled
  would make it stale.
- `ParametersLast`: the levels that a compiled program uses up are in the chain
  of primes, a degree that is chosen is enough for the chain and the vectors,
  and the rotations have keys.
- `DivideConverges` relates the expression before and after a division: the
  quotient times the divisor misses the dividend by a known power of the
  divisor's distance from 512, which is what five steps of the series leave.
- `PairedKeys`: the two contexts of a session are of one generation, whatever
  was generated, loaded, refused and loaded again.

## 4. Fairness

An execution runs on one thread and waits for nothing: once begun, the loop
`while (!readyNodes.empty())` goes on as long as there is a ready node. Hence
weak fairness of the whole next-state relation in `Executor!Spec`, and no
fairness for a particular node: which one is taken is the traversal's arbitrary
choice. `Implements` includes the `WF` of Dataflow: an execution ends, in a
result or in a failure. The passes end because a pass visits each node once
(`VisitsEachOnce`, an invariant). NodeGraph, DagGroup, AloChoice and Session are
driven by callers, who owe nobody another call; they have no fairness and no
liveness property. Handover has weak fairness for each call of the examples'
script: a party that can make its next call makes it, each input's text is
delivered in the end, and an execution whose inputs are there succeeds in the
end. Sending an output and decrypting have strong fairness, while there is a result
to send or to decrypt: an execution that ends with nothing takes the result of an
earlier one away (`decision/seal_adapter.cpp:106`), and an empty text that arrives does
the same to the reader, so that neither call stays enabled; the server may even empty
its result again and again after it has sent a good one. A party that repeats its
call sooner or later makes it while there is a result. That every failure is followed
by a success in the end is the callers' hope and not the library's promise: a program
that fails each time is never read. The library schedules nothing, so that all of this
is the callers' part, and `EventuallyRead` says that the library's part suffices: no
input or key that arrives early, twice or in pieces takes away what was there.

## 5. Proofs

`NodeGraph_proofs`: for every bound on the number of nodes, any operand vectors
and any names, under the assumptions `MaxNodeAssumption` and `VectorAssumption`,

- `IInvHolds`: the inductive invariant, type correctness together with
  mirrored edges, edges between live nodes only, exact root sets, and what the
  histories `detached`, `retired` mean. None of the checked invariants is
  inductive alone: that the sinks are exact needs the mirror (a use list is
  empty exactly if nobody has the node as an operand), the mirror needs
  liveness of the ends of every edge when a node is destroyed, and that needs
  the indices above `next` to be unused;
- `TypeCorrect`, `MirrorHolds`, `NoDanglingHolds`, `SinksExactHolds`,
  `SourcesExactHolds`: what the run checks, from that invariant.

Each operator of GraphOps has a lemma in `Graph_proofs` that states what it keeps;
the step proof has one case per action that cites the lemma of its operator.

- `OneOperandHolds`: every output has exactly one operand, whatever is rewired
  around it. `OutputsInv` adds that an output's index was given out and that its
  node is of the kind Output, which no call that erases or sets operands takes;
  replacing its operand by another leaves it with one;
- `NamedHolds`: each table has a name at most once, for an input node or an output node,
  and every live node has an operation that loading accepts; a node keeps its
  operation, because `kind` is written when a node is made and then never;
- `SavableHolds`: what saving needs of a graph. It has no cycle in either direction
  (the guards of the calls ask for that of one new edge, this is the whole graph), a
  cleaned node has no operands, and the nodes of named inputs and outputs are alive;
- `TextRoundTripHolds`, with `AssignedAssumption` on the attributes, for graphs,
  attribute lists and operand vectors of any size and order. The recursive functions of DagText are shown to obey
  their equations by minimal counterexample over the finite range of their turns.
  The walk keeps `WalkInv`: what lies above an open entry is what that entry waits
  for, an operand of an open node is written or lies above it, and the list so far
  has each written node after its operands. A potential, the entries on the stack
  plus, for every node not yet opened, one more than the longest operand list, falls
  with every turn, so that the walk ends. It reaches every node that was not cleaned
  because the graph has no cycle and the sinks are exact. Loading keeps the graph
  made so far sound (`GraphInv`), and the edges are compared one by one. Operations and
  operands stand in the loaded list in the order of the text, which numbers each node
  once, and a name leads to the number of its node (`NamedHolds`). Of the
  attributes, `AttrList::set` keeps its list sorted and the last value set of a key
  is the one found, before and after the text.

`Graph_proofs` has the lemmas on the operators of GraphOps and Traversal that the
proofs on NodeGraph, DagPasses and Executor share. For a pass whose rewriter leaves
the graph as it is (the type, depth and degree passes, the executors), in either
direction and for graphs of any size whose two sides and roots agree (`Regular`),

- `AdvanceOrdered`: one iteration keeps `Ordered`: the nodes that were ready so far are
  exactly those whose predecessors are processed, and none is both waiting and
  processed. That no node is visited twice and none too early is part of it;
- `EndComplete`: when the stack is empty, every node of an acyclic graph was
  processed. Without the exactness of the ready nodes one could be left behind.

For a rewriter that changes the graph under the traversal, `Gentle` says what it may
do to the edges of nodes that are still to come, and `AdvanceInOrder` that every
gentle rewriter keeps the traversal `InOrder`.

`DagPasses_proofs`: for every set of programs of any size, every list of passes that
keeps to the order of `PassesAssumption`, every order of visits and every algebra of
values, under `ProgramsAssumption`, `PassesAssumption` and `ValuesAssumption`,

- `PassesInOrder`: the inductive invariant. It has three parts. The graph is sound
  (`GraphInv`) and has no cycle in either direction: merging puts an edge in the place
  of two, folding adds a source, balancing adds nodes that only lead from a sum to its
  former operands. The traversal is in order: a node on the stack was not visited and
  has processed predecessors only, and one that was attached when the pass began and
  is not ready has a predecessor that is still to come. In a clean pass nothing
  becomes attached, what was dropped is isolated and what was kept has a user that
  was kept or may not be cleaned. That each of the seven rewriters is gentle is a
  lemma each (`MergingGentle`, `ExpandingGentle`, `FoldingGentle`, `CleaningGentle`,
  `ReadingGentle`): the new sum nodes are over operands that are already processed, a
  folded constant is ready at once, a cleaned node's operands become roots only when
  it was their last user;
- `VisitsEachOnceHolds`: from the order and the absence of cycles;
- `OperandsFirstHolds`: an action property, from the order;
- `NoDeadCodeHolds`, `ReleaseEmptiesHolds`: from the clean pass's part and
  `VisitsEachOnce`;
- `ShapeHolds`: sources are leaves, leaves have no operands and hold a value, through
  all rewriting;
- `TypesExactHolds`, `DepthExactHolds`, from the invariant `ReadingHolds`: what a pass
  that only reads has found of the visited nodes is what the recursion over the graph
  says. The recursions (`Encrypted`, `DepthOf`, `Value`) exist because the graph has no
  cycle: `RecursionSolves` glues partial solutions together, and `ValuesAgree` shows
  that any function that obeys the equations at a set closed under operands agrees
  with them. A depth is right because it is counted directly after the types, on the
  same graph;
- `BinaryAgainHolds`, from the invariant `BinaryHolds`: merging adds the operands of two
  nodes and takes one away, so that no sum falls below two (`Wide`); the balancing ends
  with two because each turn of its loops decreases a measure of the elements on both
  lists and `2 * Len(s)` turns exhaust it;
- `ValuePreservedHolds`: for each rewriter a valuation of the new graph is given that
  agrees with the old one on the old nodes, and shown to obey the new graph. Merging:
  gathering is over a commutative monoid, so that the operands of the merged node may
  be gathered with those of its user. Balancing: every turn keeps what is gathered from
  the two lists (`Carries`), hence the last two elements give what all gave. Folding:
  the new constant denotes what the folded node did, and takes its place in every
  operand vector. Outputs stay until the release because every rewriter leaves them an
  operand (`OutputsStay`).

`Executor_proofs`: for every set of compiled programs, every library, every
choice of inputs and of failing calls, under `CompiledAssumption`,

- `MeaningSolves`: the recursive function by which Dataflow says what a program
  denotes exists and is the only solution of its equation: the programs are
  acyclic;
- `InvHolds`: the inductive invariant. `OperandsIntact` is not inductive: that an
  object taken over in place is not needed again (`Fresh`) rests on the counter
  `m_index2out` being the number of uses by unvisited nodes (`Counted`), that on
  each node being visited once and after its operands (`Ordered`), and that an
  object holds the node's value (`Stored`) on all of it; `Faultless` adds that
  without an error every call and every input so far was there;
- `OperandsHold`, `DeliversHolds`: what the run checks, from it;
- `DataflowImplemented`: the initial states are Dataflow's and every step is a step
  of Dataflow or none; this is the safety part of `Implements`.

`Handover_proofs`: for any number of inputs, library names and texts, under
`PartiesAssumption` and `LatticeAssumption`, in every order in which texts arrive,

- `PartiesHold`: the invariant of the composition, proved together with that of
  Session: what each party can have (a reader with a decision has the signature,
  a server that compiled has a library, an owner with keys has a decision), that
  outputs in a session or a text are empty or of all inputs under the one generation
  of keys, that a text of the program has no keys (the server publishes it before
  they arrive), and that a text with the server's half of the keys has no other half;
- `NoCrashHolds`, `ReadsRightHolds`: no party dereferences a null pointer, although
  Session alone allows it, and what the reader decrypts are the values of all inputs;
- `ServerBlindHolds`: the server never has a secret context.

`DagGroup_proofs`: for any set of children and any bounds, under
`GroupAssumption`, `BoundAssumption` and `ScaleAssumption`,

- `InvHolds`: the inductive invariant. `IndicesDisjoint` alone is not
  inductive: a new index is new only because the counters of the members and of
  the group are equal (`Level`) and above every index in use (`Below`), and a
  child that joins brings new ones only because all its indices are above its
  smallest (`LowBound`), which `addDag` compares;
- `TypeCorrect`, `DisjointHolds`, `CoverHolds`: the invariants the run checks;
- `MonotonicHolds`: no counter of a member runs back and no member loses an index:
  levelling only raises, because the counters are level before each step;
- `PoolImplemented`: the group implements SharedPool.

`Session_proofs`: for any number of Dags, inputs, generations and texts, under
`BoundsAssumption` and `LibrariesAssumption`,

- `InvHolds`: the inductive invariant. A session gets its contexts from texts,
  so that the same must be known of every text: its contexts are of one
  generation, stand beside a library's name, and come from a session that had a
  decision;
- `TypeCorrect`, `PairedHolds`, `AdapterHolds`: what the run checks, from it.
- `FailureKept`: a call that throws, other than `compileDag`, leaves the keys, the
  parameters, the inputs and the outputs of every session as they were.

`AloChoice_proofs`: for any number of children, any scales, zero included, and any
depths, without an assumption,

- `DepthTestExact`, `DepthTestWraps`: what `depth > MAX_SEAL_BITS / scale - DEFAULT_Q_CNT`
  decides. Up to a scale of 293 a depth passes exactly if the bits that it needs are
  there; above it the difference wraps, every depth passes and none fits;
- `FitsAtItsScaleHolds`: after any sequence of calls, in every choice of SEAL that was
  not made by a difference that wrapped, each Dag whose own scale is not above the
  one decided at fits the modulus: a group compares its largest depth at its own scale,
  and a smaller depth at a smaller scale needs fewer bits. `SealFits` without the two
  conditions is what the run refutes. The invariants are that a scale is a number
  and a flag a Boolean.

Model-checked only, and why:

- liveness: `EventuallyRead` and the `WF` of Dataflow within `Implements`. The
  prover does not treat `ENABLED`;
- what RECURSIVE definitions compute: everything in SchemePasses, whose passes count
  and generate keys with them, and whose modules can therefore have no theorems;
- what the recursive definitions of Query compute: folds over rows, columns and
  slots, with exact numbers. For DagPasses and DagText such facts are proved, by
  minimal counterexamples over a finite range instead of induction over data.

## 6. Findings

Each has a run that TLC finds violated.

- `MCExecutorShared`: the SEAL executor moves the operand of an output away even
  if it still has uses; a second output of the same expression is empty. The
  OpenFHE executor copies.
- `MCExecutorConcrete`: the difference of a ciphertext and a number throws or
  leaves no value: one of four cases is tested twice and another never.
- `MCDagGroupReload`: the children of a reloaded group each count from zero, and
  their indices collide.
- `MCAloChoice`: `addDag` (`dag/iyfc_dag.cpp:673`) lowers the scales of a group to a
  smaller one that is added and lets a child with a larger one keep it, although its
  comment says "Update all scales to maintain consistency". A group to which a child
  with a condition (scale 50) and then one without (60) was added is decided at 50, and
  its second child, of depth 12, is encoded at 60: SEAL is chosen, and 900 bits do
  not fit 881.

Seen while modelling and not the subject of a run. Where a model excludes such a
case, its guard or assumption is named.

- Decision. `m_try_reduce_scale_cnt` (`dag/iyfc_dag.h:459`, `dag/expr.cpp:425`) is
  decremented in the test, so that `&&` and `||` lower the scale at the first,
  third, fourth and each later use instead of once; the seventh makes it 0 and
  `decision/alo_decision.cpp:62` divides by it, as it does after `setScale(dag, 0)`
  (the choice "crash" of AloChoice). A scale above 293 wraps the unsigned difference
  there, and SEAL is chosen for every depth (`DepthTestWraps`). The
  flags of a group are those of the child that a hash table yields last
  (`alo_decision.cpp:110`): of a group in which one child divides, one has
  integers and one real numbers, every choice is wrong for some child, so that no
  property says which one is right; `deLibAndAlo` ignores the result of `dePar` (`:96`).
  The flags are not part of a saved Dag (`dag/iyfc_dag.h:453`).
- Groups. `addDag` compares a child's smallest index with the group's counter,
  which does not follow an expression built on a member directly
  (`dag/iyfc_dag.cpp:652`). Names that two children share are dropped silently
  (`:667`, `checkInputNames` is commented out). Children share one decision and
  its inputs (`:701`), so that a child that executes with another one's inputs throws.
- Passes. `Reduction` and `ReductionLogExpander` may make a product deeper
  (`daghandler/reduction_handler.cpp:97` orders factors by scale, not by depth),
  although the header says "Reduce the height". The nodes of `U32ToConstant` lose
  their scale when the pass ends; no expression of the interface makes a constant
  that it would rewrite. `SparseConstantValue::expand` steps by the number of
  values (`dag/constant_value.h:219`); no code makes a sparse constant.
- Expressions. `Expr::operator!` changes its operand. `getCntOutput` truncates.
  Padding rows are counted if `m_num_size` was not set; `setCmpNumSize(0)` makes a
  loop of 2^32 steps. `div_hepler_p` (`dag/expr.cpp:608`) is never called and has
  no return. `examples/div.cpp:459` relies on the order of a hash table;
  `examples/avg.cpp` divides by a count that may be zero (excluded by `Average`).
- Encryption. `SEALPublic::encrypt` (`seal/comm/seal_public.h:92`) fills the slots
  with copies of a short input, OpenFHE with zeros, so that a program that rotates
  a short input computes different things (Query encrypts whole vectors). BFV
  counts the degree as slots, though rotations stay within half of them
  (`seal/alo/bfv_handler.cpp:166`). `OpenFheCkksAdapter::encrypt`
  (`decision/openfhe_adapter.cpp:66`) transforms integers into an empty vector.
  Concrete replaces all inputs when it encrypts, where `iyfc_include.h:135` says that
  they are merged, and keeps the old value of an input that is loaded again
  (`concrete/concrete.h:53`) where SEAL and OpenFHE take the new one; and a number above 15 leaves no inputs and returns normally.
- Session. `genKeys` returns normally and makes no keys when the session has no
  library, and dereferences a null decision before any other call (`GenKeys`);
  `exeDag` dereferences null inputs when none has come (`ExeDag`). Handover's guards
  keep the parties from both calls, as the order of the examples does, so that
  `NoCrash` is not about them. An execution of SEAL or OpenFHE that fails in its last
  visit returns normally and puts an empty result in the place of an earlier one
  (`seal/comm/seal_public.h:171`, `decision/seal_adapter.cpp:106`);
  `decryptOutput` dereferences a null signature when only the secret context and
  an output were loaded (`DecryptOutput`); every load of keys appends to `m_libs`;
  an adapter once made parses a text of another library (a behaviour of Session
  has one library); the Rust side of Concrete panics on a text that it refuses.

## 7. Hazards and what covers them

`PROJECT.json` lists each hazard at its line with the properties that would
catch it. Five have no property: names that children of a group share, and
inputs of a group's children in one decision (both need the session of a group
in one module), the flags that a text does not carry (AloChoice and Session
would have to be one module), the flags of a mixed group (no choice is right), and
the calls that dereference a null pointer when they are made out of order (Session
has them, nothing promises otherwise).

## 8. Not modelled, and why

- Python bindings, logging, timer, build files, the measurements of the examples:
  no state of the system.
- Field-by-field conversion of parameters and keys between library objects and
  messages: data, no control. What a text contains and how a load treats it is in
  Session.
- The arithmetic of the encryption libraries, noise and rounding: external; values
  are terms or exact numbers. The foreign library of Concrete: its calls work or fail.
- Bootstrapping: nothing sets `need_bootstrapping`. `saveByType`, `loadByType`, the
  second rescaler of the configuration and `free()` of the executors: never called.
- `U32ToConstant` and sparse constants: see section 6.
- The overloads of an operator of `Expr` for each type of constant, `++`, `--` and
  `!`: compositions of what Query has.

## 9. Plan

1. The flags of a Dag through its text: AloChoice composed with Session, for
   which Session's texts need the scheme.
2. A group's session: DagGroup composed with Session, with one decision and
   one set of inputs for all children, and the merged name tables.
3. Proofs: `SelectsRows` of Query, column by column from the comparison of two
   slots, by the same minimal counterexamples.
