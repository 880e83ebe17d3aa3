---------------------------- MODULE BrokerProofs ----------------------------
(***************************************************************************)
(* Proofs about the broker's three services, DocService, McpHost and       *)
(* Fetcher, each for every value of its constants.                         *)
(*                                                                         *)
(* The documents: the inductive invariant ties what the model was last     *)
(* handed to what the service has selected, and an index that is there to  *)
(* an encoder that was loaded whole before it, which need not be the one   *)
(* that came last.                                                         *)
(* The external plugin: the session in use, the one a call awaits, and the *)
(* ones that failed and are still to be closed are kept apart: the tasks   *)
(* that close the last never touch the first two.                          *)
(* The web: the client a request goes out through is in the pool, alone    *)
(* for its host; rules that are kept are what the host last said, and a    *)
(* page that is asked for, or kept, was looked up in them.                 *)
(***************************************************************************)
EXTENDS DocService, McpHost, Fetcher, FiniteSetTheorems, SequenceTheorems, TLAPS

-----------------------------------------------------------------------------
(* DOCUMENTS *)

\* What the model was last handed is what the service has selected.
HandedInv ==
  turn # "closed" =>
    \/ bound = None /\ handed = [kind |-> "none", of |-> None]
    \/ bound = Injected /\ handed = [kind |-> "text", of |-> None]
    \/ /\ bound \in DOMAIN registry
       /\ handed = [kind |-> "index", of |-> registry[bound]]

\* A thread at work has its path, and past the extraction its text.
WorkInv ==
  \A w \in Workers :
    /\ threads[w].stage # "none" => threads[w].path \in Paths
    /\ threads[w].stage \notin {"none", "extract"} => threads[w].text \in Texts

\* No encoder is built twice, one in use has what its user's stage needs, and what
\* was indexed was indexed with one that has all its parts: none is ever taken away.
WithEncoder == {"load", "session", "tokenizer", "inputs", "chunk", "encode"}
EncoderInv ==
  /\ latest = None => \A e \in Workers : parts[e] = {}
  /\ latest # None => Has(latest, "object")
  /\ \A w \in Workers :
       /\ threads[w].stage = "build" => parts[w] = {}
       /\ threads[w].stage \in WithEncoder
            => threads[w].uses \in Workers /\ Has(threads[w].uses, "object")
       /\ threads[w].stage \in {"tokenizer", "inputs", "chunk", "encode"}
            => Has(threads[w].uses, "session")
       /\ threads[w].stage = "encode" => Has(threads[w].uses, "tokenizer")
  /\ DOMAIN registry # {} => \E e \in Workers : Parts \subseteq parts[e]

RegistryInv == IsFiniteSet(DOMAIN registry) /\ IndexesAreKept

DocInv == TypeOK /\ WorkInv /\ HandedInv /\ EncoderInv /\ RegistryInv

USE DocAssumption
USE DEF files, encoder, Index, Stages, Parts, Thread, Asleep

-----------------------------------------------------------------------------
(* Ids and indexes *)

\* Among one suffix more than there are ids, one is free (_register's loop ends).
LEMMA FreeId ==
  ASSUME IsFiniteSet(DOMAIN registry), NEW p \in Paths
  PROVE  Register(p) \in Ids /\ Register(p) \notin DOMAIN registry
<1> DEFINE k == Cardinality(DOMAIN registry)
           f == [n \in 1 .. k + 1 |-> <<Name[p], n>>]
<1>1. k \in Nat
  BY FS_CardinalityType
<1>2. \E n \in 1 .. k + 1 : <<Name[p], n>> \notin DOMAIN registry
  <2> SUFFICES ASSUME \A n \in 1 .. k + 1 : <<Name[p], n>> \in DOMAIN registry
               PROVE  FALSE
    OBVIOUS
  <2>1. f \in [1 .. k + 1 -> DOMAIN registry]
    OBVIOUS
  <2>2. IsFiniteSet(1 .. k + 1) /\ Cardinality(1 .. k + 1) = k + 1
    BY <1>1, FS_Interval
  <2>3. \E x, y \in 1 .. k + 1 : x # y /\ f[x] = f[y]
    <3> DEFINE S == 1 .. k + 1
               T == DOMAIN registry
    <3>1. IsFiniteSet(S) /\ IsFiniteSet(T) /\ Cardinality(T) < Cardinality(S)
      BY <1>1, <2>2
    <3>2. f \in [S -> T]
      BY <2>1
    <3>3. \E x, y \in S : x # y /\ f[x] = f[y]
      <4> HIDE DEF f, k, S, T
      <4> QED
        BY <3>1, <3>2, FS_PigeonHole
    <3> QED
      BY <3>3
  <2> QED
    BY <2>3
<1>3. PICK n \in 1 .. k + 1 : /\ <<Name[p], n>> \notin DOMAIN registry
                              /\ Register(p) = <<Name[p], n>>
  BY <1>2 DEF Register
<1> QED
  BY <1>1, <1>3 DEF Ids

-----------------------------------------------------------------------------
(* Types *)

\* What has been built, and what of it is there, is never taken away.
LEMMA EncoderTypes ==
  DocInv /\ [Next]_vars => /\ parts' \in [Workers -> SUBSET Parts]
                           /\ latest' \in Workers \cup {None}
                           /\ \A e \in Workers : parts[e] \subseteq parts'[e]
                           /\ latest # None => latest' # None
<1> SUFFICES ASSUME DocInv, [Next]_vars
             PROVE  /\ parts' \in [Workers -> SUBSET Parts]
                    /\ latest' \in Workers \cup {None}
                    /\ \A e \in Workers : parts[e] \subseteq parts'[e]
                    /\ latest # None => latest' # None
  OBVIOUS
<1> USE DEF DocInv, TypeOK
<1>1. CASE QueryLoads
  <2>1. latest \in Workers
    BY <1>1 DEF QueryLoads, EncoderInv
  <2>2. PICK made \in SUBSET Parts : parts' = [parts EXCEPT ![latest] = @ \cup made]
    BY <1>1 DEF QueryLoads
  <2>3. UNCHANGED latest
    BY <1>1 DEF QueryLoads
  <2> QED
    BY <2>1, <2>2, <2>3
<1>2. ASSUME NEW w \in Workers, SessionMade(w) \/ TokenizerMade(w) \/ InputsListed(w)
      PROVE  /\ parts' \in [Workers -> SUBSET Parts] /\ latest' = latest
             /\ \A e \in Workers : parts[e] \subseteq parts'[e]
  BY <1>2 DEF SessionMade, TokenizerMade, InputsListed, Adds
<1>3. ASSUME NEW w \in Workers, Builds(w)
      PROVE  /\ parts' \in [Workers -> SUBSET Parts] /\ latest' \in Workers
             /\ \A e \in Workers : parts[e] \subseteq parts'[e]
  BY <1>3 DEF Builds, EncoderInv
<1>4. \/ QueryLoads \/ UNCHANGED encoder
      \/ \E w \in Workers : \/ SessionMade(w) \/ TokenizerMade(w) \/ InputsListed(w)
                            \/ Builds(w)
  BY Zenon
  DEF Next, TurnBegins, TurnEnds, Clear, Edits, Reopens, Opens, ThreadStep, Extracted,
      NotExtracted, FindsNone, Gets, Loads, LoadFails, Chunks, NotChunked, Encoded,
      NotEncoded, Refuses, vars
<1> QED
  BY <1>1, <1>2, <1>3, <1>4

\* A thread that got its text, or its encoder, and goes on.
LEMMA TextTypes ==
  ASSUME threads \in [Workers -> Thread], NEW w \in Workers, NEW stage \in Stages,
         NEW text \in Texts,
         threads' = [threads EXCEPT ![w] = [threads[w] EXCEPT !.stage = stage, !.text = text]]
  PROVE  /\ threads' \in [Workers -> Thread] /\ threads'[w].stage = stage
         /\ \A v \in Workers : v # w => threads'[v] = threads[v]
OBVIOUS

LEMMA UsesTypes ==
  ASSUME threads \in [Workers -> Thread], NEW w \in Workers, NEW stage \in Stages,
         NEW e \in Workers,
         threads' = [threads EXCEPT ![w] = [threads[w] EXCEPT !.stage = stage, !.uses = e]]
  PROVE  threads' \in [Workers -> Thread]
OBVIOUS

\* A thread's record keeps its type whatever its stage and its text become.
LEMMA ThreadTypes ==
  ASSUME TypeOK, NEW w \in Workers, NEW stage \in Stages
  PROVE  /\ Goes(w, stage) =>
              threads' \in [Workers -> Thread]
         /\ Returns(w) =>
              threads' \in [Workers -> Thread]
BY DEF TypeOK, Goes, Returns

\* A step of a thread that is over, or goes to its next stage, keeps its work.
LEMMA WorkStays ==
  ASSUME TypeOK, WorkInv, NEW w \in Workers, NEW stage \in Stages,
         \/ Returns(w)
         \/ Goes(w, stage) /\ threads[w].stage \notin {"none", "extract"}
  PROVE  WorkInv'
BY DEF TypeOK, WorkInv, Goes, Returns

\* The rest of the state keeps its types.
LEMMA DocTypeStep == DocInv /\ [Next]_vars => TypeOK' /\ WorkInv'
<1> SUFFICES ASSUME DocInv, [Next]_vars PROVE TypeOK' /\ WorkInv'
  OBVIOUS
<1> USE DEF DocInv, TypeOK
<1>1. parts' \in [Workers -> SUBSET Parts] /\ latest' \in Workers \cup {None}
  BY EncoderTypes
<1>2. CASE TurnBegins \/ TurnEnds \/ Clear \/ QueryLoads
  BY <1>1, <1>2 DEF TurnBegins, TurnEnds, Clear, QueryLoads, WorkInv
<1>3. ASSUME NEW p \in Paths, Edits(p) PROVE TypeOK' /\ WorkInv'
  BY <1>1, <1>3 DEF Edits, WorkInv
<1>4. ASSUME NEW p \in Paths, Reopens(p) PROVE TypeOK' /\ WorkInv'
  BY <1>1, <1>4 DEF Reopens, Known, Hands, WorkInv
<1>5. ASSUME NEW p \in Paths, NEW w \in Workers, Opens(p, w) PROVE TypeOK' /\ WorkInv'
  <2>1. TypeOK'
    BY <1>1, <1>5 DEF Opens
  <2>2. WorkInv'
    BY <1>5 DEF Opens, WorkInv
  <2>3. QED
    BY <2>1, <2>2
<1>6. ASSUME NEW w \in Workers, ThreadStep(w) PROVE TypeOK' /\ WorkInv'
  <2>1. CASE Extracted(w)
    <3>1. threads[w].path \in Paths /\ disk[threads[w].path] \in Texts
      BY <2>1 DEF Extracted, WorkInv
    <3>2. CASE Returns(w)
      <4>1. TypeOK'
        BY <1>1, <2>1, <3>2, ThreadTypes DEF Extracted, Hands, Returns
      <4>2. WorkInv'
        BY <3>2, WorkStays
      <4>3. QED
        BY <4>1, <4>2
    <3>3. CASE /\ threads' = [threads EXCEPT ![w] =
                              [@ EXCEPT !.stage = "check", !.text = disk[threads[w].path]]]
               /\ UNCHANGED <<bound, opening, handed>>
      <4>1. TypeOK'
        <5>1. UNCHANGED <<turn, disk, opened, registry>>
          BY <2>1 DEF Extracted
        <5>2. threads' \in [Workers -> Thread]
          BY <3>1, <3>3, TextTypes
        <5>3. opening # None => threads'[opening].stage # "none"
          BY <3>3
        <5>4. QED
          BY <1>1, <3>3, <5>1, <5>2, <5>3
      <4>2. WorkInv'
        BY <3>1, <3>3 DEF WorkInv
      <4>3. QED
        BY <4>1, <4>2
    <3>4. QED
      BY <2>1, <3>2, <3>3 DEF Extracted
  <2>2. CASE Refuses(w)
    BY <1>1, <2>2, ThreadTypes, WorkStays DEF Refuses, Returns
  <2>3. CASE \/ FindsNone(w) \/ Builds(w) \/ Loads(w) \/ Chunks(w)
            \/ SessionMade(w) \/ TokenizerMade(w) \/ InputsListed(w)
    <3>1. PICK stage \in Stages \ {"none"} : Goes(w, stage)
      BY <2>3 DEF FindsNone, Builds, Loads, SessionMade, TokenizerMade, InputsListed,
             Chunks
    <3>2. threads[w].stage \notin {"none", "extract"}
      BY <2>3 DEF FindsNone, Builds, Loads, SessionMade, TokenizerMade, InputsListed,
             Chunks
    <3>3. WorkInv'
      BY <3>1, <3>2, WorkStays
    <3>4. UNCHANGED <<turn, disk, files, opening, handed>>
      BY <2>3 DEF FindsNone, Builds, Loads, SessionMade, TokenizerMade, InputsListed,
             Chunks
    <3>5. \A v \in Workers : v # w => threads'[v] = threads[v]
      BY <3>1 DEF Goes
    <3>6. opening # None => threads'[opening].stage # "none"
      BY <3>1 DEF Goes
    <3>7. QED
      BY <1>1, <3>1, <3>3, <3>4, <3>6, ThreadTypes
  <2>4. CASE Encoded(w)
    <3>1. DEFINE p == threads[w].path
                 index == [from |-> p, text |-> threads[w].text]
    <3>2. p \in Paths /\ index \in Index
      BY <2>4 DEF Encoded, WorkInv
    <3>3. Register(p) \in Ids
      BY <3>2, FreeId DEF RegistryInv
    <3>4. /\ Put(Register(p), index) /\ opened' = [opened EXCEPT ![p] = Register(p)]
          /\ bound' = Register(p) /\ Hands("index", index) /\ Returns(w)
          /\ UNCHANGED <<turn, disk, encoder>>
      BY <2>4 DEF Encoded
    <3>5. DOMAIN registry' \subseteq Ids /\ \A id \in DOMAIN registry' : registry'[id] \in Index
      BY <3>2, <3>3, <3>4 DEF Put
    <3>6. handed' \in [kind : {"none", "text", "index"}, of : Index \cup {None}]
      BY <3>2, <3>4 DEF Hands
    <3>7. /\ opened' \in [Paths -> Ids \cup {None}]
          /\ bound' \in Ids \cup {None, Injected}
      BY <3>2, <3>3, <3>4
    <3>8. WorkInv'
      BY <3>4, WorkStays
    <3>9. QED
      BY <1>1, <3>4, <3>5, <3>6, <3>7, <3>8, ThreadTypes DEF Returns
  <2>6. CASE Gets(w)
    <3>1. /\ threads[w].stage = "check" /\ latest \in Workers
          /\ threads' = [threads EXCEPT ![w] =
                            [threads[w] EXCEPT !.stage = "load", !.uses = latest]]
          /\ UNCHANGED <<turn, disk, files, opening, encoder, handed>>
      BY <2>6 DEF Gets
    <3>2. threads' \in [Workers -> Thread]
      BY <3>1, UsesTypes
    <3>3. TypeOK'
      BY <1>1, <3>1, <3>2
    <3>4. WorkInv'
      BY <3>1 DEF WorkInv
    <3>5. QED
      BY <3>3, <3>4
  <2>5. QED
    BY <1>6, <2>1, <2>2, <2>3, <2>4, <2>6
    DEF ThreadStep, NotExtracted, LoadFails, NotChunked, NotEncoded
<1>7. CASE UNCHANGED vars
  BY <1>1, <1>7 DEF vars, WorkInv
<1> QED
  BY <1>2, <1>3, <1>4, <1>5, <1>6, <1>7 DEF Next

-----------------------------------------------------------------------------
(* What was handed, the encoder, and the indexes *)

\* A step that leaves the selection and the registry alone.
LEMMA Untouched ==
  ASSUME HandedInv, RegistryInv, UNCHANGED <<opened, registry, bound, handed>>,
         turn' = "closed" \/ turn # "closed"
  PROVE  HandedInv' /\ RegistryInv'
BY DEF HandedInv, RegistryInv, IndexesAreKept

\* The index of an open that is awaited is registered under an id of its own.
LEMMA EncodedKeeps ==
  ASSUME DocInv, NEW w \in Workers, Encoded(w)
  PROVE  HandedInv' /\ RegistryInv'
<1> DEFINE p == threads[w].path
           index == [from |-> p, text |-> threads[w].text]
           id == Register(p)
<1>1. p \in Paths
  BY DEF DocInv, WorkInv, Encoded
<1>2. id \in Ids /\ id \notin DOMAIN registry
  BY <1>1, FreeId DEF DocInv, RegistryInv
<1>3. /\ Put(id, index) /\ opened' = [opened EXCEPT ![p] = id] /\ bound' = id
      /\ Hands("index", index)
  BY DEF Encoded
<1> HIDE DEF id
<1>4. /\ DOMAIN registry' = DOMAIN registry \cup {id} /\ registry'[id] = index
      /\ \A i \in DOMAIN registry : registry'[i] = registry[i]
  BY <1>2, <1>3 DEF Put
<1>5. HandedInv'
  BY <1>3, <1>4 DEF HandedInv, Hands
<1>6. IsFiniteSet(DOMAIN registry')
  BY <1>4, FS_AddElement DEF DocInv, RegistryInv
<1>7. IndexesAreKept'
  BY <1>1, <1>2, <1>3, <1>4 DEF DocInv, TypeOK, RegistryInv, IndexesAreKept
<1> QED
  BY <1>5, <1>6, <1>7 DEF RegistryInv

LEMMA SelectionStep == DocInv /\ [Next]_vars => HandedInv' /\ RegistryInv'
<1> SUFFICES ASSUME DocInv, [Next]_vars PROVE HandedInv' /\ RegistryInv'
  OBVIOUS
<1> USE DEF DocInv
<1>1. CASE TurnBegins \/ TurnEnds \/ QueryLoads
  BY <1>1, Untouched DEF TurnBegins, TurnEnds, QueryLoads
<1>2. CASE Clear
  <2>1. DOMAIN registry' = {}
    BY <1>2 DEF Clear
  <2>2. IsFiniteSet(DOMAIN registry')
    BY <2>1, FS_EmptySet
  <2>3. QED
    BY <1>2, <2>2 DEF Clear, HandedInv, RegistryInv, IndexesAreKept
<1>3. ASSUME NEW p \in Paths, Edits(p) PROVE HandedInv' /\ RegistryInv'
  BY <1>3, Untouched DEF Edits
<1>4. ASSUME NEW p \in Paths, Reopens(p) PROVE HandedInv' /\ RegistryInv'
  BY <1>4 DEF Reopens, Known, Hands, HandedInv, RegistryInv, IndexesAreKept
<1>5. ASSUME NEW p \in Paths, NEW w \in Workers, Opens(p, w)
      PROVE  HandedInv' /\ RegistryInv'
  BY <1>5, Untouched DEF Opens
<1>6. ASSUME NEW w \in Workers, ThreadStep(w) PROVE HandedInv' /\ RegistryInv'
  <2>1. CASE Extracted(w)
    <3>1. UNCHANGED <<turn, opened, registry>>
      BY <2>1 DEF Extracted
    <3>2. CASE UNCHANGED <<bound, handed>>
      BY <3>1, <3>2, Untouched DEF HandedInv
    <3>3. CASE bound' = Injected /\ Hands("text", None)
      BY <3>1, <3>3 DEF HandedInv, Hands, RegistryInv, IndexesAreKept
    <3>4. QED
      BY <2>1, <3>2, <3>3 DEF Extracted
  <2>2. CASE Refuses(w)
    BY <2>2, Untouched DEF Refuses, files, HandedInv
  <2>3. CASE \/ FindsNone(w) \/ Builds(w) \/ Loads(w) \/ Chunks(w)
            \/ SessionMade(w) \/ TokenizerMade(w) \/ InputsListed(w)
    BY <2>3, Untouched DEF FindsNone, Builds, Loads, SessionMade, TokenizerMade, InputsListed,
             Chunks,
                           files, encoder, HandedInv
  <2>4. CASE Encoded(w)
    BY <2>4, EncodedKeeps
  <2>6. CASE Gets(w)
    BY <2>6, Untouched DEF Gets, HandedInv
  <2>5. QED
    BY <1>6, <2>1, <2>2, <2>3, <2>4, <2>6
    DEF ThreadStep, NotExtracted, LoadFails, NotChunked, NotEncoded
<1>7. CASE UNCHANGED vars
  BY <1>7, Untouched DEF vars, HandedInv
<1> QED
  BY <1>1, <1>2, <1>3, <1>4, <1>5, <1>6, <1>7 DEF Next

\* A file whose text is out leaves its thread done, or about to look for an encoder.
LEMMA ExtractedStages ==
  ASSUME TypeOK, WorkInv, NEW w \in Workers, Extracted(w)
  PROVE  /\ \A v \in Workers : v # w => threads'[v] = threads[v]
         /\ threads'[w].stage \in {"none", "check"}
<1>1. threads \in [Workers -> Thread] /\ disk[threads[w].path] \in Texts
  BY DEF TypeOK, WorkInv, Extracted
<1>2. CASE threads' = [threads EXCEPT ![w] = Asleep]
  BY <1>1, <1>2
<1>3. CASE threads' = [threads EXCEPT ![w] =
             [threads[w] EXCEPT !.stage = "check", !.text = disk[threads[w].path]]]
  BY <1>1, <1>3, TextTypes
<1> QED
  BY <1>2, <1>3 DEF Extracted, Returns

\* The threads see to it.
LEMMA EncoderStep == DocInv /\ [Next]_vars => EncoderInv'
<1> SUFFICES ASSUME DocInv, [Next]_vars PROVE EncoderInv'
  OBVIOUS
<1>0. TypeOK /\ EncoderInv
  BY DEF DocInv
<1>a. /\ parts' \in [Workers -> SUBSET Parts] /\ latest' \in Workers \cup {None}
      /\ \A e \in Workers : parts[e] \subseteq parts'[e]
  BY EncoderTypes
<1> USE <1>0, <1>a DEF TypeOK, EncoderInv, Has, WithEncoder
<1>1. CASE TurnBegins \/ TurnEnds \/ UNCHANGED vars
  BY <1>1 DEF TurnBegins, TurnEnds, vars
<1>2. CASE Clear
  BY <1>2 DEF Clear
<1>3. CASE QueryLoads
  <2>1. latest \in Workers
    BY <1>3 DEF QueryLoads
  <2> QED
    BY <1>3, <2>1 DEF QueryLoads
<1>4. ASSUME NEW p \in Paths, Edits(p) \/ Reopens(p) PROVE EncoderInv'
  BY <1>4 DEF Edits, Reopens
<1>5. ASSUME NEW p \in Paths, NEW w \in Workers, Opens(p, w) PROVE EncoderInv'
  BY <1>5 DEF Opens
<1>6. ASSUME NEW w \in Workers, Extracted(w) PROVE EncoderInv'
  <2>1. UNCHANGED <<parts, latest, registry>>
    BY <1>6 DEF Extracted
  <2>2. /\ \A v \in Workers : v # w => threads'[v] = threads[v]
        /\ threads'[w].stage \in {"none", "check"}
    BY <1>6, ExtractedStages DEF DocInv
  <2> QED
    BY <2>1, <2>2
<1>7. ASSUME NEW w \in Workers, Refuses(w) PROVE EncoderInv'
  BY <1>7 DEF Refuses, Returns
<1>8. ASSUME NEW w \in Workers, FindsNone(w) PROVE EncoderInv'
  BY <1>8 DEF FindsNone, Goes
<1>9. ASSUME NEW w \in Workers, Builds(w) PROVE EncoderInv'
  BY <1>9 DEF Builds, Goes
<1>10. ASSUME NEW w \in Workers, Gets(w) PROVE EncoderInv'
  BY <1>10 DEF Gets
<1>11. ASSUME NEW w \in Workers, Loads(w) \/ Chunks(w) PROVE EncoderInv'
  BY <1>11 DEF Loads, Chunks, Goes
<1>12. ASSUME NEW w \in Workers, SessionMade(w) PROVE EncoderInv'
  BY <1>12 DEF SessionMade, Adds, Goes
<1>13. ASSUME NEW w \in Workers, TokenizerMade(w) PROVE EncoderInv'
  BY <1>13 DEF TokenizerMade, Adds, Goes
<1>14. ASSUME NEW w \in Workers, InputsListed(w) PROVE EncoderInv'
  BY <1>14 DEF InputsListed, Adds, Goes
<1>15. ASSUME NEW w \in Workers, Encoded(w) PROVE EncoderInv'
  BY <1>15 DEF Encoded, Returns
<1> QED
  BY <1>1, <1>2, <1>3, <1>4, <1>5, <1>6, <1>7, <1>8, <1>9, <1>10, <1>11, <1>12, <1>13,
     <1>14, <1>15
  DEF Next, ThreadStep, NotExtracted, LoadFails, NotChunked, NotEncoded

-----------------------------------------------------------------------------
(* Theorems *)

\* The inductive invariant holds in every reachable state.
THEOREM DocInvariant == Spec => []DocInv
<1>1. Init => DocInv
  <2>2. Init => DOMAIN registry = {}
    BY DEF Init
  <2>3. Init => TypeOK
    BY <2>2 DEF Init, TypeOK
  <2>4. Init => WorkInv /\ HandedInv /\ EncoderInv
    BY <2>2 DEF Init, WorkInv, HandedInv, EncoderInv, WithEncoder
  <2>5. Init => RegistryInv
    BY <2>2, FS_EmptySet DEF Init, RegistryInv, IndexesAreKept
  <2>6. QED
    BY <2>3, <2>4, <2>5 DEF DocInv
<1>2. DocInv /\ [Next]_vars => DocInv'
  BY DocTypeStep, SelectionStep, EncoderStep DEF DocInv
<1>3. QED
  BY <1>1, <1>2, PTL DEF Spec

\* Type correctness: an open that is awaited has a thread at work, in a turn.
THEOREM DocTypes == Spec => []TypeOK
<1>1. DocInv => TypeOK
  BY DEF DocInv
<1>2. QED
  BY <1>1, DocInvariant, PTL

\* A query answers from the document that was handed over last, for any number of
\* threads left behind by cut turns; it fails, or raises, only where two of them built
\* an encoder (DocumentService.open, _bind, query and _encoder_once, E5Encoder.load).
THEOREM QueriesAnswerTheLastOpen == Spec => []AnswersTheLastOpen
<1>1. DocInv => AnswersTheLastOpen
  <2> SUFFICES ASSUME DocInv, turn = "on", NEW answer \in Answers
               PROVE  \/ answer = handed
                      \/ answer.kind \in {"unavailable", "raises"} /\ SeveralEncoders
    BY DEF AnswersTheLastOpen
  <2> USE DEF DocInv, TypeOK
  <2>1. CASE bound = None
    BY <2>1 DEF HandedInv, Answers
  <2>2. CASE bound = Injected
    BY <2>2 DEF HandedInv, Answers
  <2>3. CASE bound \in DOMAIN registry
    <3>1. handed = [kind |-> "index", of |-> registry[bound]] /\ bound # Injected
      BY <2>3 DEF HandedInv
    <3>2. PICK e \in Workers : Parts \subseteq parts[e]
      BY <2>3 DEF EncoderInv
    <3>3. latest \in Workers /\ Has(latest, "object")
      BY <3>2 DEF EncoderInv
    <3>4. CASE Parts \subseteq parts[latest]
      BY <2>3, <3>1, <3>4 DEF Answers, Has
    <3>5. CASE ~(Parts \subseteq parts[latest])
      <4>1. SeveralEncoders
        BY <3>2, <3>3, <3>5 DEF SeveralEncoders, Has
      <4>2. answer = handed \/ answer.kind \in {"unavailable", "raises"}
        BY <2>3, <3>1 DEF Answers
      <4> QED
        BY <4>1, <4>2
    <3> QED
      BY <3>4, <3>5
  <2>4. QED
    BY <2>1, <2>2, <2>3 DEF HandedInv
<1>2. QED
  BY <1>1, DocInvariant, PTL

\* No open ever replaces the index of another path, however many files share a
\* name (DocumentService._register).
THEOREM IndexesAlwaysKept == Spec => []IndexesAreKept
<1>1. DocInv => IndexesAreKept
  BY DEF DocInv, RegistryInv
<1>2. QED
  BY <1>1, DocInvariant, PTL

HIDE DocAssumption
HIDE DEF files, encoder, Index, Stages, Asleep

-----------------------------------------------------------------------------
(* THE EXTERNAL PLUGIN *)

\* The session in use, and the one a call awaits, are alive or were, and nobody
\* is to close them.
SessionInv ==
  /\ session # NoProc => state[session] # "free" /\ session \notin closing
  /\ pc \in {"opening", "handshake", "greeting"}
       => session = NoProc /\ state[at] # "free" /\ at \notin closing /\ asked[at] = 1
  /\ pc \in {"writing", "answer"} => at = session /\ asked[at] >= 1
  /\ \A p \in Procs : state[p] = "free" => asked[p] = 0 /\ p \notin closing

\* What the future of the call holds is for its last request.
FutureInv == got # Nothing => pc # "idle" /\ got.id = asked[at]

\* A disabled server has no call, and was announced once.
StrikeInv ==
  /\ disabled => pc = "idle" /\ mounted # "no" /\ announced = 1
  /\ ~disabled => strikes < MaxStrikes /\ announced = 0

McpInv == McpTypeOK /\ SessionInv /\ FutureInv /\ StrikeInv

USE McpAssumption
USE DEF hostVars, callVars, procVars, RequestIds, Nothing, Writes, Awaits

-----------------------------------------------------------------------------
(* Types *)

McpFlagsOK == disabled \in BOOLEAN /\ quarantined \in BOOLEAN /\ spinning \in BOOLEAN

\* The Boolean-valued variables keep their type in every step.
LEMMA McpFlagsStep == McpFlagsOK /\ [McpNext]_mcpVars => McpFlagsOK'
<1> SUFFICES ASSUME McpFlagsOK, [McpNext]_mcpVars PROVE McpFlagsOK'
  OBVIOUS
<1> USE DEF McpFlagsOK
<1>1. \A m, n : (m >= n) \in BOOLEAN
  OBVIOUS
<1>2. ASSUME NEW ps, Fails(ps) PROVE McpFlagsOK'
  BY <1>1, <1>2, Zenon DEF Fails, Strike, Skip
<1>3. CASE Escapes
  BY <1>3, Zenon DEF Escapes
<1>4. CASE Cut \/ Shutdown \/ Written \/ CallStep \/ SpawnFails
  BY <1>2, <1>3, <1>4, Zenon
  DEF Cut, Shutdown, Written, CallStep, SpawnFails, NotWritten, HandshakeEnds,
      VersionRefused, Answered, CallFails, TimesOut
<1>5. ASSUME NEW p \in Procs,
             Spawns(p) \/ CallsOn(p) \/ CloseRuns(p) \/ Dies(p)
               \/ ReaderEnds(p) \/ ListChanged(p) \/ LineTooLong(p) \/ BridgeBegins(p)
               \/ BridgeEnds(p) \/ (\E id \in RequestIds : Responds(p, id))
      PROVE  McpFlagsOK'
  BY <1>5, Zenon
  DEF Spawns, CallsOn, CloseRuns, Dies, ReaderEnds, ListChanged, LineTooLong,
      BridgeBegins, BridgeEnds, Responds
<1>6. CASE UNCHANGED mcpVars
  BY <1>6, Zenon DEF mcpVars
<1> QED
  BY <1>4, <1>5, <1>6 DEF McpNext

\* Closing sessions keeps the types of the processes.
LEMMA ClosedTypes ==
  ASSUME McpTypeOK, NEW ps, Closed(ps)
  PROVE  /\ state' \in [Procs -> {"free", "up", "dead"}]
         /\ reader' \in [Procs -> {"off", "on", "bridge"}]
         /\ asked' \in [Procs -> 0 .. MaxAsked] /\ unanswered' \in [Procs -> SUBSET RequestIds]
         /\ \A p \in Procs : /\ p \in ps => state'[p] = "free" /\ asked'[p] = 0
                             /\ p \notin ps => state'[p] = state[p] /\ asked'[p] = asked[p]
BY DEF McpTypeOK, Closed

\* A request keeps them too.
LEMMA RequestTypes ==
  ASSUME McpTypeOK, NEW p \in Procs, NEW stage \in Writes,
         Request(p, stage), asked[p] < MaxAsked
  PROVE  /\ asked' \in [Procs -> 0 .. MaxAsked] /\ unanswered' \in [Procs -> SUBSET RequestIds]
         /\ pc' = stage /\ at' = p
         /\ got' \in [what : {"none", "result", "error", "exception"}, id : RequestIds \cup {0}]
         /\ asked'[p] = asked[p] + 1
         /\ \A q \in Procs : q # p => asked'[q] = asked[q]
BY DEF McpTypeOK, Request

-----------------------------------------------------------------------------
(* Steps *)

\* A call that fails: its session is dropped before anyone closes it.
LEMMA FailStep ==
  ASSUME McpInv, NEW ps \in SUBSET Procs, Fails(ps), McpFlagsOK',
         session \notin ps, ps \cap closing = {}, disabled => mounted = "no"
  PROVE  McpInv'
<1> USE DEF McpInv, McpTypeOK, McpFlagsOK
<1>1. /\ pc' = "idle" /\ at' = NoProc /\ got' = Nothing /\ spinning' = spinning
  BY DEF Fails, Idle
<1>2. ~disabled
  BY DEF StrikeInv
<1>3. CASE kind = "tool" /\ Strike /\ Closed(ps)
  <2>1. McpTypeOK'
    BY <1>1, <1>2, <1>3, ClosedTypes DEF Strike, StrikeInv
  <2>2. SessionInv'
    BY <1>1, <1>3, ClosedTypes DEF Strike, SessionInv
  <2>3. FutureInv' /\ StrikeInv'
    <3>1. disabled' <=> strikes' >= MaxStrikes
      BY <1>3, Zenon DEF Strike
    <3>2. announced' = announced + (IF disabled' THEN 1 ELSE 0) /\ mounted' # "no"
      BY <1>3 DEF Strike, kind
    <3>3. announced = 0 /\ strikes' \in Nat
      BY <1>2, <1>3 DEF StrikeInv, Strike
    <3>4. QED
      BY <1>1, <3>1, <3>2, <3>3 DEF FutureInv, StrikeInv
  <2>4. QED
    BY <2>1, <2>2, <2>3
<1>4. ASSUME NEW qs \in SUBSET Procs, qs \cap closing = {}, Skip(qs) PROVE McpInv'
  <2>1. McpTypeOK'
    BY <1>1, <1>4, ClosedTypes DEF Skip
  <2>2. SessionInv'
    BY <1>1, <1>4, ClosedTypes DEF Skip, SessionInv
  <2>3. FutureInv' /\ StrikeInv'
    BY <1>1, <1>2, <1>4 DEF Skip, FutureInv, StrikeInv
  <2>4. QED
    BY <2>1, <2>2, <2>3
<1>5. pc = "answer" => at \in Procs /\ at \notin closing
  BY DEF SessionInv
<1> QED
  BY <1>3, <1>4, <1>5 DEF Fails

\* A call that ends by an exception nobody counts.
LEMMA EscapeStep ==
  ASSUME McpInv, Escapes, McpFlagsOK'
  PROVE  McpInv'
<1> USE DEF McpInv, McpTypeOK, McpFlagsOK
<1>1. CASE UNCHANGED <<session, procVars>>
  BY <1>1 DEF Escapes, Idle, kind, SessionInv, FutureInv, StrikeInv
<1>2. CASE kind = "list" /\ pc = "writing" /\ session' = NoProc /\ Closed({at})
           /\ UNCHANGED closing
  <2>1. /\ at \in Procs /\ at \notin closing /\ ~disabled
        /\ pc' = "idle" /\ at' = NoProc /\ got' = Nothing /\ mounted' = "down"
        /\ UNCHANGED <<strikes, disabled, quarantined, announced, spinning>>
    BY <1>2 DEF Escapes, Idle, kind, SessionInv, StrikeInv
  <2>2. McpTypeOK'
    BY <1>2, <2>1, ClosedTypes
  <2>3. SessionInv' /\ FutureInv' /\ StrikeInv'
    BY <1>2, <2>1, ClosedTypes DEF SessionInv, FutureInv, StrikeInv
  <2>4. QED
    BY <2>2, <2>3
<1> QED
  BY <1>1, <1>2 DEF Escapes

\* A write that went through.
LEMMA WrittenStep ==
  ASSUME McpInv, McpFlagsOK', Written
  PROVE  McpInv'
<1> USE DEF McpInv, McpTypeOK, McpFlagsOK
<1>1. UNCHANGED <<mounted, strikes, disabled, quarantined, announced, state, reader,
                  closing, spinning>>
  BY DEF Written
<1>2. CASE /\ \/ pc = "opening" /\ pc' = "handshake"
              \/ pc = "writing" /\ pc' = "answer"
           /\ UNCHANGED <<session, at, got, asked, unanswered>>
  BY <1>1, <1>2 DEF SessionInv, FutureInv, StrikeInv
<1>3. CASE pc = "greeting" /\ session' = at /\ Request(at, "writing")
  <2>1. at \in Procs /\ asked[at] = 1
    BY <1>3 DEF SessionInv
  <2>2. McpTypeOK'
    BY <1>1, <1>3, <2>1, RequestTypes
  <2>3. SessionInv' /\ FutureInv'
    BY <1>1, <1>3, <2>1, RequestTypes DEF SessionInv, FutureInv, Request
  <2>4. StrikeInv'
    BY <1>1, <1>3 DEF StrikeInv
  <2>5. QED
    BY <2>2, <2>3, <2>4
<1> QED
  BY <1>2, <1>3 DEF Written

\* The steps of the call, of the turn and of the shutdown.
LEMMA CallStepKeeps ==
  ASSUME McpInv, McpFlagsOK', Written \/ CallStep \/ Cut \/ Shutdown \/ SpawnFails
  PROVE  McpInv'
<1> USE DEF McpInv, McpTypeOK, McpFlagsOK
<1>1. CASE HandshakeEnds
  BY <1>1 DEF HandshakeEnds, SessionInv, FutureInv, StrikeInv
<1>2. CASE VersionRefused
  <2>1. Fails({at}) /\ pc = "handshake" /\ at \in Procs
    BY <1>2 DEF VersionRefused
  <2>2. session \notin {at} /\ {at} \cap closing = {} /\ ~disabled
    BY <2>1 DEF SessionInv, StrikeInv
  <2>3. QED
    BY <2>1, <2>2, FailStep
<1>3. CASE NotWritten
  BY <1>3, EscapeStep DEF NotWritten
<1>4. CASE Answered
  <2>1. /\ pc = "answer" /\ at = session /\ at \in Procs /\ at \notin closing /\ ~disabled
        /\ pc' = "idle" /\ at' = NoProc /\ got' = Nothing
        /\ UNCHANGED <<disabled, quarantined, announced, spinning>>
    BY <1>4 DEF Answered, Idle, SessionInv, StrikeInv
  <2>2. CASE kind = "tool" /\ strikes' = 0 /\ UNCHANGED <<mounted, session, procVars>>
    BY <2>1, <2>2 DEF SessionInv, FutureInv, StrikeInv
  <2>3. CASE kind = "list" /\ mounted' = "yes" /\ UNCHANGED <<session, strikes, procVars>>
    BY <2>1, <2>3 DEF SessionInv, FutureInv, StrikeInv
  <2>4. CASE /\ kind = "list" /\ mounted' = "yes" /\ session' = NoProc
             /\ Closed({at}) /\ UNCHANGED <<strikes, closing>>
    <3>1. McpTypeOK'
      BY <2>1, <2>4, ClosedTypes
    <3>2. SessionInv' /\ FutureInv' /\ StrikeInv'
      BY <2>1, <2>4, ClosedTypes DEF SessionInv, FutureInv, StrikeInv
    <3>3. QED
      BY <3>1, <3>2
  <2>5. QED
    BY <1>4, <2>2, <2>3, <2>4 DEF Answered
<1>5. CASE CallFails \/ TimesOut
  <2>1. Fails({}) /\ ~disabled
    BY <1>5 DEF CallFails, TimesOut, StrikeInv
  <2>2. QED
    BY <2>1, FailStep
<1>6. CASE SpawnFails
  <2>1. Fails({}) /\ (disabled => mounted = "no")
    BY <1>6 DEF SpawnFails, MayCall
  <2>2. QED
    BY <2>1, FailStep
<1>7. CASE Cut
  BY <1>7 DEF Cut, Idle, SessionInv, FutureInv, StrikeInv
<1>8. CASE Shutdown
  <2>1. PICK ps \in {{}, {session}} : Closed(ps)
    BY <1>8 DEF Shutdown
  <2>2. /\ pc' = "idle" /\ at' = NoProc /\ got' = Nothing /\ session' = NoProc
        /\ mounted' = "down"
        /\ UNCHANGED <<strikes, disabled, quarantined, announced, closing, spinning>>
    BY <1>8 DEF Shutdown, Idle
  <2>3. McpTypeOK'
    BY <2>1, <2>2, ClosedTypes
  <2>4. SessionInv' /\ FutureInv' /\ StrikeInv'
    BY <2>1, <2>2, ClosedTypes DEF SessionInv, FutureInv, StrikeInv
  <2>5. QED
    BY <2>3, <2>4
<1> QED
  BY <1>1, <1>2, <1>3, <1>4, <1>5, <1>6, <1>7, <1>8, WrittenStep DEF CallStep

\* The steps of a session: its start, its reader, its server, its end.
LEMMA ProcStepKeeps ==
  ASSUME McpInv, McpFlagsOK', NEW p \in Procs,
         Spawns(p) \/ CallsOn(p) \/ CloseRuns(p) \/ Dies(p)
           \/ ReaderEnds(p) \/ ListChanged(p) \/ LineTooLong(p) \/ BridgeBegins(p)
           \/ BridgeEnds(p) \/ (\E id \in RequestIds : Responds(p, id))
  PROVE  McpInv'
<1> USE DEF McpInv, McpTypeOK, McpFlagsOK
<1>1. CASE Spawns(p)
  <2>1. /\ Request(p, "opening") /\ session = NoProc /\ state[p] = "free" /\ asked[p] = 0
        /\ state' = [state EXCEPT ![p] = "up"] /\ reader' = [reader EXCEPT ![p] = "on"]
        /\ UNCHANGED <<hostVars, closing, spinning>> /\ p \notin closing /\ ~disabled
    BY <1>1 DEF Spawns, SessionInv, StrikeInv, MayCall
  <2>2. McpTypeOK'
    BY <2>1, RequestTypes
  <2>3. SessionInv' /\ FutureInv'
    BY <2>1, RequestTypes DEF SessionInv, FutureInv, Request
  <2>4. StrikeInv'
    BY <2>1 DEF StrikeInv
  <2>5. QED
    BY <2>2, <2>3, <2>4
<1>2. CASE CallsOn(p)
  <2>1. /\ Request(p, "writing") /\ session = p /\ asked[p] < MaxAsked
        /\ UNCHANGED <<hostVars, state, reader, closing, spinning>> /\ ~disabled
    BY <1>2 DEF CallsOn, StrikeInv, MayCall
  <2>2. McpTypeOK'
    BY <2>1, RequestTypes
  <2>3. SessionInv' /\ FutureInv'
    BY <2>1, RequestTypes DEF SessionInv, FutureInv, Request
  <2>4. StrikeInv'
    BY <2>1 DEF StrikeInv
  <2>5. QED
    BY <2>2, <2>3, <2>4
<1>4. CASE CloseRuns(p)
  <2>1. /\ p \in closing /\ closing' = closing \ {p} /\ Closed({p})
        /\ UNCHANGED <<hostVars, callVars, spinning>> /\ at # p /\ session # p
    BY <1>4 DEF CloseRuns, SessionInv
  <2>2. McpTypeOK'
    BY <2>1, ClosedTypes
  <2>3. \A q \in Procs : /\ q = p => state'[q] = "free" /\ asked'[q] = 0
                         /\ q # p => state'[q] = state[q] /\ asked'[q] = asked[q]
    BY <2>1, ClosedTypes
  <2>4. SessionInv'
    BY <2>1, <2>3 DEF SessionInv
  <2>5. FutureInv' /\ StrikeInv'
    BY <2>1, <2>3 DEF FutureInv, StrikeInv
  <2>6. QED
    BY <2>2, <2>4, <2>5
<1>5. CASE Dies(p)
  BY <1>5 DEF Dies, SessionInv, FutureInv, StrikeInv
<1>6. ASSUME FailPending(p), UNCHANGED <<hostVars, pc, at, state, asked, unanswered,
                                         closing, spinning>>,
             reader' = [reader EXCEPT ![p] = "off"]
      PROVE  McpInv'
  <2>1. at = p => asked[p] \in RequestIds /\ pc # "idle"
    BY DEF SessionInv
  <2>2. McpTypeOK' /\ FutureInv'
    BY <1>6, <2>1 DEF FailPending, InFlight, FutureInv
  <2>3. SessionInv' /\ StrikeInv'
    BY <1>6 DEF SessionInv, StrikeInv
  <2>4. QED
    BY <2>2, <2>3
<1>7. CASE ReaderEnds(p)
  BY <1>6, <1>7 DEF ReaderEnds
<1>8. CASE ListChanged(p) \/ LineTooLong(p) \/ BridgeBegins(p)
  BY <1>8 DEF ListChanged, LineTooLong, BridgeBegins, SessionInv, FutureInv, StrikeInv
<1>9. CASE BridgeEnds(p)
  <2>1. CASE reader' = [reader EXCEPT ![p] = "on"] /\ UNCHANGED got
    BY <1>9, <2>1 DEF BridgeEnds, SessionInv, FutureInv, StrikeInv
  <2>2. QED
    BY <1>6, <1>9, <2>1 DEF BridgeEnds
<1>10. ASSUME NEW id \in RequestIds, Responds(p, id) PROVE McpInv'
  <2>1. /\ unanswered' = [unanswered EXCEPT ![p] = @ \ {id}]
        /\ UNCHANGED <<hostVars, pc, at, state, reader, asked, closing, spinning>>
        /\ got' = got \/ (/\ at = p /\ id = asked[p]
                         /\ \E what \in {"result", "error"} : got' = [what |-> what, id |-> id])
    BY <1>10 DEF Responds, ForTheCall, InFlight
  <2>2. McpTypeOK' /\ FutureInv'
    BY <2>1 DEF FutureInv
  <2>3. SessionInv' /\ StrikeInv'
    BY <2>1 DEF SessionInv, StrikeInv
  <2>4. QED
    BY <2>2, <2>3
<1> QED
  BY <1>1, <1>2, <1>4, <1>5, <1>7, <1>8, <1>9, <1>10

-----------------------------------------------------------------------------
(* Theorems *)

\* The inductive invariant holds in every reachable state.
THEOREM McpInvariant == McpSpec => []McpInv
<1>1. McpInit => McpInv
  <2>1. McpInit => McpFlagsOK
    BY Zenon DEF McpInit, McpFlagsOK
  <2>2. QED
    BY <2>1 DEF McpInit, McpInv, McpTypeOK, McpFlagsOK, SessionInv, FutureInv, StrikeInv
<1>2. McpInv /\ [McpNext]_mcpVars => McpInv'
  <2> SUFFICES ASSUME McpInv, [McpNext]_mcpVars PROVE McpInv'
    OBVIOUS
  <2>1. McpFlagsOK'
    BY McpFlagsStep DEF McpInv, McpTypeOK, McpFlagsOK
  <2>2. CASE UNCHANGED mcpVars
    BY <2>2 DEF mcpVars, McpInv, McpTypeOK, SessionInv, FutureInv, StrikeInv
  <2>3. QED
    BY <2>1, <2>2, CallStepKeeps, ProcStepKeeps DEF McpNext
<1>3. QED
  BY <1>1, <1>2, PTL DEF McpSpec

\* Type correctness: a server is struck at most MAX_STRIKES times.
THEOREM McpTypes == McpSpec => []McpTypeOK
<1>1. McpInv => McpTypeOK
  BY DEF McpInv
<1>2. QED
  BY <1>1, McpInvariant, PTL

\* No late answer, of a call that timed out or was cut, on the session in use or
\* on one that failed, is taken for the answer of the call in progress
\* (McpSession._dispatch, McpHost._strike).
THEOREM AnswersAreAlwaysOwn == McpSpec => []AnswersAreTheCallsOwn
<1>1. McpInv => AnswersAreTheCallsOwn
  <2> SUFFICES ASSUME McpInv PROVE AnswersAreTheCallsOwn
    OBVIOUS
  <2>1. session \notin closing
    BY DEF McpInv, McpTypeOK, SessionInv
  <2>2. QED
    BY <2>1 DEF McpInv, SessionInv, FutureInv, AnswersAreTheCallsOwn
<1>2. QED
  BY <1>1, McpInvariant, PTL

\* A server that was disabled, or put in quarantine before the call began, is sent
\* nothing, and the user is told of its end once (McpHost._call, _strike).
THEOREM ContainedAlwaysLeftAlone == McpSpec => ContainedServerIsLeftAlone
<1>1. McpInv /\ [McpNext]_mcpVars =>
        [/\ pc = "idle" /\ mounted = "yes" /\ (disabled \/ quarantined) => pc' = "idle"
         /\ disabled => /\ pc = "idle" /\ pc' = "idle" /\ announced' = announced]_mcpVars
  <2> SUFFICES ASSUME McpInv, [McpNext]_mcpVars, ~(UNCHANGED mcpVars)
               PROVE /\ pc = "idle" /\ mounted = "yes" /\ (disabled \/ quarantined) => pc' = "idle"
                     /\ disabled => /\ pc = "idle" /\ pc' = "idle" /\ announced' = announced
    OBVIOUS
  <2>1. pc = "idle" /\ pc' # "idle" => MayCall
    BY DEF McpNext, SpawnFails, CallStep, Cut, Shutdown, Spawns, CallsOn, CloseRuns,
           Dies, ReaderEnds, ListChanged, LineTooLong, BridgeBegins, BridgeEnds,
           Responds, Written, NotWritten, HandshakeEnds, VersionRefused, Answered,
           CallFails, TimesOut, Fails, Escapes, Idle, Writes, Awaits
  <2>2. disabled => pc = "idle" /\ mounted # "no"
    BY DEF McpInv, StrikeInv
  <2>3. disabled => announced' = announced
    BY <2>2
    DEF McpNext, SpawnFails, CallStep, Cut, Shutdown, Spawns, CallsOn, CloseRuns,
        Dies, ReaderEnds, ListChanged, LineTooLong, BridgeBegins, BridgeEnds,
        Responds, Written, NotWritten, HandshakeEnds, VersionRefused, Answered,
        CallFails, TimesOut, MayCall, Escapes, Writes, Awaits
  <2>4. QED
    BY <2>1, <2>2, <2>3 DEF MayCall
<1>2. QED
  BY <1>1, McpInvariant, PTL DEF McpSpec, ContainedServerIsLeftAlone

HIDE McpAssumption
HIDE DEF hostVars, callVars, procVars, RequestIds, Nothing, Writes, Awaits

-----------------------------------------------------------------------------
(* THE WEB *)

\* A fetch under way has its page, and a request its hop.
FetchInv ==
  /\ place \notin {"idle", "closed"} => url \in Urls
  /\ place \in {"robots", "page", "extract"} => current \in Urls

\* A host whose client waits for the close of another one has its own.
PoolInv == OneClientPerHost /\ (wait = "close" => Host[current] \in Range(pool))

\* Rules that are kept are what the host last said, and every page that is asked for
\* or kept was looked up in them.
Allowed(u) == rules[Host[u]] # Unset /\ u \notin rules[Host[u]]
RulesInv ==
  /\ \A h \in Hosts : rules[h] # Unset => said[h] = rules[h]
  /\ place = "robots" => rules[Host[url]] = Unset
  /\ place \in {"rate", "page", "extract"} => Allowed(url)
  /\ \A e \in Range(cache) : Allowed(e.url)

WebInv == WebTypeOK /\ BadgeIsTrue /\ FetchInv /\ PoolInv /\ RulesInv

USE FetcherAssumption
USE DEF fetchVars, keptVars, historyVars

-----------------------------------------------------------------------------
(* The ordered dictionaries *)

\* Where entry i was before entry k of n moved to the end.
Before(n, k, i) == IF i < k THEN i ELSE IF i = n THEN k ELSE i + 1

LEMMA BeforeIsABijection ==
  ASSUME NEW n \in Nat, NEW k \in 1 .. n
  PROVE  /\ \A i \in 1 .. n : Before(n, k, i) \in 1 .. n
         /\ \A i, j \in 1 .. n : Before(n, k, i) = Before(n, k, j) => i = j
         /\ Before(n, k, n) = k
BY DEF Before

\* An entry that is used again moves to the end and nothing is lost.
LEMMA UsedKeeps ==
  ASSUME NEW T, NEW s \in Seq(T), NEW e \in Range(s)
  PROVE  /\ Used(s, e) \in Seq(T)
         /\ Len(Used(s, e)) = Len(s)
         /\ e \in Range(Used(s, e)) /\ Range(Used(s, e)) \subseteq Range(s)
         /\ IsInjective(s) => IsInjective(Used(s, e))
<1> DEFINE k == KeyIndex(s, e)
<1>1. Len(s) \in Nat /\ DOMAIN s = 1 .. Len(s)
  OBVIOUS
<1>2. k \in 1 .. Len(s) /\ s[k] = e
  <2>1. \E j \in DOMAIN s : s[j] = e
    BY DEF Range
  <2> QED
    BY <1>1, <2>1 DEF KeyIndex
<1> HIDE DEF k
<1>3. Used(s, e) = [i \in 1 .. Len(s) |-> s[Before(Len(s), k, i)]]
  <2>1. ASSUME NEW i \in 1 .. Len(s)
        PROVE  s[Before(Len(s), k, i)]
                 = CASE i < k -> s[i] [] i = Len(s) -> e [] OTHER -> s[i + 1]
    <3>1. k <= Len(s) /\ i \in Int /\ k \in Int
      BY <1>1, <1>2
    <3>2. CASE i < k
      BY <1>1, <3>1, <3>2 DEF Before
    <3>3. CASE ~(i < k) /\ i = Len(s)
      BY <1>2, <3>1, <3>3 DEF Before
    <3>4. CASE ~(i < k) /\ i # Len(s)
      BY <3>1, <3>4 DEF Before
    <3> QED
      BY <3>2, <3>3, <3>4
  <2> QED
    BY <1>1, <2>1 DEF Used, k
<1>4. \A i \in 1 .. Len(s) : Used(s, e)[i] = s[Before(Len(s), k, i)]
  BY <1>3
<1>5. Used(s, e) \in Seq(T) /\ Len(Used(s, e)) = Len(s) /\ DOMAIN Used(s, e) = 1 .. Len(s)
  <2>1. \A i \in 1 .. Len(s) : s[i] \in T
    BY <1>1
  <2>2. Used(s, e) \in [1 .. Len(s) -> T]
    BY <1>1, <1>2, <1>3, <2>1, BeforeIsABijection
  <2>3. Used(s, e) \in Seq(T)
    BY <1>1, <2>2, SeqDef
  <2> QED
    BY <1>1, <2>2, <2>3
<1>6. e \in Range(Used(s, e))
  <2>1. Used(s, e)[Len(s)] = e
    <3>1. Before(Len(s), k, Len(s)) = k
      BY <1>1, <1>2, BeforeIsABijection, Zenon
    <3>2. Len(s) \in 1 .. Len(s)
      BY <1>1, <1>2
    <3> QED
      BY <1>2, <1>4, <3>1, <3>2, Zenon
  <2> QED
    BY <1>1, <1>2, <1>5, <2>1 DEF Range
<1>7. ASSUME IsInjective(s) PROVE IsInjective(Used(s, e))
  <2>1. \A m, n \in 1 .. Len(s) : s[m] = s[n] => m = n
    BY <1>1, <1>7 DEF IsInjective
  <2>2. /\ \A i \in 1 .. Len(s) : Before(Len(s), k, i) \in 1 .. Len(s)
        /\ \A i, j \in 1 .. Len(s) : Before(Len(s), k, i) = Before(Len(s), k, j) => i = j
    BY <1>1, <1>2, BeforeIsABijection, Zenon
  <2> QED
    BY <1>4, <1>5, <2>1, <2>2, Zenon DEF IsInjective
<1>8. Range(Used(s, e)) \subseteq Range(s)
  <2>1. \A i \in 1 .. Len(s) : Before(Len(s), k, i) \in 1 .. Len(s)
    BY <1>1, <1>2, BeforeIsABijection, Zenon
  <2> QED
    BY <1>1, <1>4, <1>5, <2>1 DEF Range
<1> QED
  BY <1>5, <1>6, <1>7, <1>8

LEMMA AppendTypes ==
  ASSUME NEW T, NEW s \in Seq(T), NEW e \in T
  PROVE  Append(s, e) \in Seq(T)
OBVIOUS

LEMMA RangeTypes ==
  ASSUME NEW T, NEW s \in Seq(T), NEW e \in Range(s)
  PROVE  e \in T
BY DEF Range

LEMMA ExceptTypes ==
  ASSUME NEW S, NEW T, NEW f \in [S -> T], NEW x, NEW v \in T
  PROVE  [f EXCEPT ![x] = v] \in [S -> T]
OBVIOUS

\* A client that is made is the newest, and the first of its host.
LEMMA AppendKeeps ==
  ASSUME NEW T, NEW s \in Seq(T), NEW h \in T, h \notin Range(s)
  PROVE  /\ Append(s, h) \in Seq(T) /\ Len(Append(s, h)) = Len(s) + 1
         /\ h \in Range(Append(s, h))
         /\ IsInjective(s) => IsInjective(Append(s, h))
<1>1. /\ DOMAIN Append(s, h) = 1 .. Len(s) + 1 /\ Append(s, h)[Len(s) + 1] = h
      /\ \A i \in 1 .. Len(s) : Append(s, h)[i] = s[i]
  OBVIOUS
<1>2. h \in Range(Append(s, h))
  BY <1>1 DEF Range
<1>3. \A i \in 1 .. Len(s) : s[i] # h
  BY DEF Range
<1>4. IsInjective(s) => IsInjective(Append(s, h))
  BY <1>1, <1>3 DEF IsInjective
<1> QED
  BY <1>2, <1>4

\* Taking out the oldest leaves the others, each still alone for its host.
LEMMA TailKeeps ==
  ASSUME NEW T, NEW s \in Seq(T), s # <<>>
  PROVE  /\ Tail(s) \in Seq(T) /\ Len(Tail(s)) = Len(s) - 1
         /\ Range(Tail(s)) \subseteq Range(s)
         /\ IsInjective(s) => IsInjective(Tail(s))
<1>1. /\ DOMAIN Tail(s) = 1 .. Len(s) - 1
      /\ \A i \in 1 .. Len(s) - 1 : Tail(s)[i] = s[i + 1]
  OBVIOUS
<1>2. Range(Tail(s)) \subseteq Range(s)
  BY <1>1 DEF Range
<1>3. IsInjective(s) => IsInjective(Tail(s))
  BY <1>1 DEF IsInjective
<1> QED
  BY <1>2, <1>3

\* The cache drops its oldest entry, if any, for the one it gets.
LEMMA NewestKeeps ==
  ASSUME NEW T, NEW s \in Seq(T), NEW e \in T, NEW n
  PROVE  /\ Newest(Append(s, e), n) \in Seq(T)
         /\ \A d \in Range(Newest(Append(s, e), n)) : d \in Range(s) \/ d = e
<1>1. Append(s, e) \in Seq(T) /\ Append(s, e) # <<>>
  OBVIOUS
<1>2. /\ Tail(Append(s, e)) \in Seq(T)
      /\ Range(Tail(Append(s, e))) \subseteq Range(Append(s, e))
  BY <1>1, TailKeeps, Zenon
<1>3. Range(Append(s, e)) \subseteq Range(s) \cup {e}
  BY DEF Range
<1> QED
  BY <1>1, <1>2, <1>3, Zenon DEF Newest

-----------------------------------------------------------------------------
(* The fetch *)

\* Every step keeps the type of the turn.
LEMMA TurnType == inTurn \in BOOLEAN /\ [WebNext]_webVars => inTurn' \in BOOLEAN
BY Zenon
DEF WebNext, FetchStep, NewTurn, EndTurn, BudgetEnds, Close, Tick, CacheHit, Starts,
    RateAllows, Connects, CloseReturns, Redirected, RobotsSays, RobotsUnreachable,
    PageFails, PageIsHtml, PageRead, webVars

\* And the types of the fetch.
LEMMA FetchStepTypes == WebInv /\ [WebNext]_webVars => FetchOK'
<1> SUFFICES ASSUME WebInv, [WebNext]_webVars PROVE FetchOK'
  OBVIOUS
<1> USE DEF WebInv, WebTypeOK, FetchOK, FetchInv, Rules, Places
<1>1. CASE NewTurn
  BY <1>1 DEF NewTurn
<1>2. CASE EndTurn
  BY <1>2 DEF EndTurn, Over, Stops
<1>3. CASE BudgetEnds
  BY <1>3 DEF BudgetEnds, Over, Stops
<1>4. CASE Close
  BY <1>4 DEF Close, Stops
<1>5. CASE Tick
  BY <1>5 DEF Tick
<1>6. ASSUME NEW u \in Urls, CacheHit(u) PROVE FetchOK'
  BY <1>6 DEF CacheHit, Asks, Cached, Reads
<1>7. ASSUME NEW u \in Urls, Starts(u) PROVE FetchOK'
  <2>1. CASE rules[Host[u]] = Unset
    BY <1>7, <2>1 DEF Starts, Asks, Hop
  <2>2. CASE rules[Host[u]] # Unset
    BY <1>7, <2>2 DEF Starts, Asks, Checked
  <2> QED
    BY <2>1, <2>2
<1>8. CASE RateAllows
  BY <1>8 DEF RateAllows, Hop
<1>9. CASE Connects
  <2>1. evicted' \in Hosts \cup {Unset}
    BY <1>9 DEF Connects, Acquires, KeptOK
  <2> QED
    BY <1>9, <2>1 DEF Connects, Acquires
<1>10. CASE CloseReturns
  BY <1>10 DEF CloseReturns
<1>11. ASSUME NEW u \in Urls, Redirected(u) PROVE FetchOK'
  BY <1>11 DEF Redirected, Hop
<1>12. ASSUME NEW answer \in Rules, RobotsSays(answer) PROVE FetchOK'
  BY <1>12 DEF RobotsSays, Said, Checked
<1>13. CASE RobotsUnreachable
  BY <1>13 DEF RobotsUnreachable, Said, Over, Stops
<1>14. CASE PageFails
  BY <1>14 DEF PageFails, Over, Stops
<1>15. CASE PageIsHtml
  BY <1>15 DEF PageIsHtml
<1>16. CASE PageRead
  BY <1>16 DEF PageRead, Reads, Over, Stops
<1>17. CASE UNCHANGED webVars
  BY <1>17 DEF webVars
<1> QED
  BY <1>1, <1>2, <1>3, <1>4, <1>5, <1>6, <1>7, <1>8, <1>9, <1>10, <1>11,
     <1>12, <1>13, <1>14, <1>15, <1>16, <1>17
  DEF WebNext, FetchStep

\* And of what is kept.
LEMMA KeptStepTypes == WebInv /\ [WebNext]_webVars => KeptOK'
<1> SUFFICES ASSUME WebInv, [WebNext]_webVars PROVE KeptOK'
  OBVIOUS
<1> USE DEF WebInv, WebTypeOK, KeptOK, Rules
<1>1. CASE NewTurn
  BY <1>1 DEF NewTurn
<1>2. CASE EndTurn
  BY <1>2 DEF EndTurn, Over, Stops
<1>3. CASE BudgetEnds
  BY <1>3 DEF BudgetEnds, Over, Stops
<1>4. CASE Close
  BY <1>4 DEF Close, Stops
<1>5. CASE Tick
  BY <1>5 DEF Tick
<1>6. ASSUME NEW u \in Urls, CacheHit(u) PROVE KeptOK'
  <2>1. PICK e \in Range(cache) : cache' = Used(cache, e) /\ Reads(e.domain, e.domain)
    BY <1>6 DEF CacheHit, Cached
  <2>2. cache' \in Seq([url : Urls, domain : Hosts])
    BY <2>1, UsedKeeps, Zenon
  <2>3. e.domain \in Hosts
    <3>1. \A i \in DOMAIN cache : cache[i] \in [url : Urls, domain : Hosts]
      <4>1. cache \in Seq([url : Urls, domain : Hosts]) /\ DOMAIN cache = 1 .. Len(cache)
        OBVIOUS
      <4> QED
        BY <4>1, ElementOfSeq, Zenon
    <3>2. PICK i \in DOMAIN cache : e = cache[i]
      BY DEF Range
    <3> QED
      BY <3>1, <3>2
  <2> QED
    BY <1>6, <2>1, <2>2, <2>3 DEF CacheHit, Reads
<1>7. ASSUME NEW u \in Urls, Starts(u) PROVE KeptOK'
  BY <1>7 DEF Starts, Asks, Checked, Hop
<1>8. CASE RateAllows
  <2>1. cooldown' \in [Hosts -> 0 .. Interval]
    <3>1. cooldown \in [Hosts -> 0 .. Interval] /\ Interval \in 0 .. Interval
      OBVIOUS
    <3> QED
      BY <1>8, <3>1, ExceptTypes, Zenon DEF RateAllows
  <2> QED
    <3>1. UNCHANGED <<rules, pool, cache, domains, said, read>>
      BY <1>8, Zenon DEF RateAllows
    <3> QED
      BY <2>1, <3>1
<1>9. CASE Connects
  <2>1. Host[current] \in Hosts
    BY <1>9 DEF Connects, FetchOK, FetchInv, Places
  <2>2. pool' \in Seq(Hosts)
    <3>1. CASE Host[current] \in Range(pool)
      <4>1. pool' = Used(pool, Host[current])
        BY <1>9, <3>1 DEF Connects
      <4> QED
        BY <3>1, <4>1, UsedKeeps, Zenon
    <3>2. CASE Host[current] \notin Range(pool)
      <4>1. \/ pool' = Append(pool, Host[current])
            \/ pool' = Append(Tail(pool), Host[current]) /\ pool # <<>>
        BY <1>9, <3>2 DEF Connects, Acquires
      <4> QED
        <5>1. pool \in Seq(Hosts) /\ (pool # <<>> => Tail(pool) \in Seq(Hosts))
          OBVIOUS
        <5>2. Append(pool, Host[current]) \in Seq(Hosts)
          BY <2>1, <5>1, AppendTypes, Zenon
        <5>3. pool # <<>> => Append(Tail(pool), Host[current]) \in Seq(Hosts)
          BY <2>1, <5>1, AppendTypes, Zenon
        <5> QED
          BY <4>1, <5>2, <5>3, Zenon
    <3> QED
      BY <3>1, <3>2
  <2> QED
    BY <1>9, <2>2 DEF Connects
<1>10. CASE CloseReturns
  BY <1>10 DEF CloseReturns
<1>11. ASSUME NEW u \in Urls, Redirected(u) PROVE KeptOK'
  BY <1>11 DEF Redirected, Hop
<1>12. ASSUME NEW answer \in Rules, RobotsSays(answer) PROVE KeptOK'
  BY <1>12 DEF RobotsSays, Said, Checked
<1>13. CASE RobotsUnreachable
  BY <1>13 DEF RobotsUnreachable, Said, Over, Stops
<1>14. CASE PageFails
  BY <1>14 DEF PageFails, Over, Stops
<1>15. CASE PageIsHtml
  BY <1>15 DEF PageIsHtml
<1>16. CASE PageRead
  <2>1. [url |-> url, domain |-> Host[current]] \in [url : Urls, domain : Hosts]
    BY <1>16 DEF PageRead, FetchOK, FetchInv, Places
  <2>2. cache \in Seq([url : Urls, domain : Hosts])
    OBVIOUS
  <2>3. cache' \in Seq([url : Urls, domain : Hosts])
    BY <1>16, <2>1, <2>2, NewestKeeps, Zenon DEF PageRead
  <2>4. Host[current] \in Hosts
    BY <2>1
  <2> QED
    BY <1>16, <2>3, <2>4 DEF PageRead, Reads
<1>17. CASE UNCHANGED webVars
  BY <1>17 DEF webVars
<1> QED
  BY <1>1, <1>2, <1>3, <1>4, <1>5, <1>6, <1>7, <1>8, <1>9, <1>10, <1>11,
     <1>12, <1>13, <1>14, <1>15, <1>16, <1>17
  DEF WebNext, FetchStep

\* A fetch keeps its page until it is over.
LEMMA FetchCallStep == WebInv /\ [WebNext]_webVars => FetchInv'
<1> SUFFICES ASSUME WebInv, [WebNext]_webVars PROVE FetchInv'
  OBVIOUS
<1> USE DEF WebInv, WebTypeOK, FetchOK, FetchInv, Places
<1>1. CASE NewTurn
  BY <1>1 DEF NewTurn
<1>2. CASE EndTurn
  BY <1>2 DEF EndTurn, Over, Stops
<1>3. CASE BudgetEnds
  BY <1>3 DEF BudgetEnds, Over, Stops
<1>4. CASE Close
  BY <1>4 DEF Close, Stops
<1>5. CASE Tick
  BY <1>5 DEF Tick
<1>6. ASSUME NEW u \in Urls, CacheHit(u) PROVE FetchInv'
  BY <1>6 DEF CacheHit, Asks, Cached, Reads
<1>7. ASSUME NEW u \in Urls, Starts(u) PROVE FetchInv'
  BY <1>7 DEF Starts, Asks, Checked, Hop
<1>8. CASE RateAllows
  BY <1>8 DEF RateAllows, Hop
<1>9. CASE Connects
  BY <1>9 DEF Connects, Acquires
<1>10. CASE CloseReturns
  BY <1>10 DEF CloseReturns
<1>11. ASSUME NEW u \in Urls, Redirected(u) PROVE FetchInv'
  BY <1>11 DEF Redirected, Hop
<1>12. ASSUME NEW answer \in Rules, RobotsSays(answer) PROVE FetchInv'
  BY <1>12 DEF RobotsSays, Said, Checked
<1>13. CASE RobotsUnreachable
  BY <1>13 DEF RobotsUnreachable, Said, Over, Stops
<1>14. CASE PageFails
  BY <1>14 DEF PageFails, Over, Stops
<1>15. CASE PageIsHtml
  BY <1>15 DEF PageIsHtml
<1>16. CASE PageRead
  BY <1>16 DEF PageRead, Reads, Over, Stops
<1>17. CASE UNCHANGED webVars
  BY <1>17 DEF webVars
<1> QED
  BY <1>1, <1>2, <1>3, <1>4, <1>5, <1>6, <1>7, <1>8, <1>9, <1>10, <1>11,
     <1>12, <1>13, <1>14, <1>15, <1>16, <1>17
  DEF WebNext, FetchStep

\* The record of the turn and what the model got grow together.
LEMMA BadgeStep == WebInv /\ [WebNext]_webVars => BadgeIsTrue'
<1> SUFFICES ASSUME WebInv, [WebNext]_webVars PROVE BadgeIsTrue'
  OBVIOUS
<1> USE DEF WebInv, BadgeIsTrue
<1>1. CASE NewTurn
  BY <1>1 DEF NewTurn
<1>2. CASE EndTurn
  BY <1>2 DEF EndTurn, Over, Stops
<1>3. CASE BudgetEnds
  BY <1>3 DEF BudgetEnds, Over, Stops
<1>4. CASE Close
  BY <1>4 DEF Close, Stops
<1>5. CASE Tick
  BY <1>5 DEF Tick
<1>6. ASSUME NEW u \in Urls, CacheHit(u) PROVE BadgeIsTrue'
  BY <1>6 DEF CacheHit, Asks, Cached, Reads
<1>7. ASSUME NEW u \in Urls, Starts(u) PROVE BadgeIsTrue'
  BY <1>7 DEF Starts, Asks, Checked, Hop
<1>8. CASE RateAllows
  BY <1>8 DEF RateAllows, Hop
<1>9. CASE Connects
  BY <1>9 DEF Connects, Acquires
<1>10. CASE CloseReturns
  BY <1>10 DEF CloseReturns
<1>11. ASSUME NEW u \in Urls, Redirected(u) PROVE BadgeIsTrue'
  BY <1>11 DEF Redirected, Hop
<1>12. ASSUME NEW answer \in Rules, RobotsSays(answer) PROVE BadgeIsTrue'
  BY <1>12 DEF RobotsSays, Said, Checked
<1>13. CASE RobotsUnreachable
  BY <1>13 DEF RobotsUnreachable, Said, Over, Stops
<1>14. CASE PageFails
  BY <1>14 DEF PageFails, Over, Stops
<1>15. CASE PageIsHtml
  BY <1>15 DEF PageIsHtml
<1>16. CASE PageRead
  BY <1>16 DEF PageRead, Reads, Over, Stops
<1>17. CASE UNCHANGED webVars
  BY <1>17 DEF webVars
<1> QED
  BY <1>1, <1>2, <1>3, <1>4, <1>5, <1>6, <1>7, <1>8, <1>9, <1>10, <1>11,
     <1>12, <1>13, <1>14, <1>15, <1>16, <1>17
  DEF WebNext, FetchStep

\* The client of the current host stays while it is used.
LEMMA PoolStep == WebInv /\ [WebNext]_webVars => PoolInv'
<1> SUFFICES ASSUME WebInv, [WebNext]_webVars PROVE PoolInv'
  OBVIOUS
<1> USE DEF WebInv, WebTypeOK, FetchOK, KeptOK, FetchInv, PoolInv, OneClientPerHost, Places
<1>1. CASE NewTurn
  BY <1>1 DEF NewTurn
<1>2. CASE EndTurn
  BY <1>2 DEF EndTurn, Over, Stops
<1>3. CASE BudgetEnds
  BY <1>3 DEF BudgetEnds, Over, Stops
<1>4. CASE Close
  <2>1. pool' = <<>> /\ wait' = "none"
    BY <1>4 DEF Close, Stops
  <2> QED
    BY <2>1 DEF IsInjective
<1>5. CASE Tick
  BY <1>5 DEF Tick
<1>6. ASSUME NEW u \in Urls, CacheHit(u) PROVE PoolInv'
  BY <1>6 DEF CacheHit, Asks, Cached, Reads
<1>7. ASSUME NEW u \in Urls, Starts(u) PROVE PoolInv'
  BY <1>7 DEF Starts, Asks, Checked, Hop
<1>8. CASE RateAllows
  BY <1>8 DEF RateAllows, Hop
<1>9. CASE Connects
  <2>1. Host[current] \in Hosts /\ current' = current
    BY <1>9 DEF Connects
  <2>2. CASE Host[current] \in Range(pool)
    <3>1. pool' = Used(pool, Host[current])
      BY <1>9, <2>2 DEF Connects
    <3>2. /\ Len(pool') = Len(pool) /\ Host[current] \in Range(pool')
          /\ IsInjective(pool')
      BY <2>2, <3>1, UsedKeeps
    <3> QED
      BY <2>1, <3>2
  <2>3. CASE Host[current] \notin Range(pool) /\ Len(pool) < MaxClients
    <3>1. pool' = Append(pool, Host[current])
      BY <1>9, <2>3 DEF Connects, Acquires
    <3>2. /\ Len(pool') = Len(pool) + 1 /\ Host[current] \in Range(pool')
          /\ IsInjective(pool')
      BY <2>1, <2>3, <3>1, AppendKeeps
    <3> QED
      BY <2>1, <2>3, <3>2
  <2>4. CASE Host[current] \notin Range(pool) /\ Len(pool) >= MaxClients
    <3>1. pool' = Append(Tail(pool), Host[current]) /\ pool # <<>>
      BY <1>9, <2>4 DEF Connects, Acquires
    <3>2. /\ Tail(pool) \in Seq(Hosts) /\ Len(Tail(pool)) = Len(pool) - 1
          /\ Host[current] \notin Range(Tail(pool)) /\ IsInjective(Tail(pool))
      BY <2>4, <3>1, TailKeeps
    <3>3. /\ Len(pool') = Len(pool) /\ Host[current] \in Range(pool')
          /\ IsInjective(pool')
      <4>1. /\ Len(pool') = Len(Tail(pool)) + 1 /\ Host[current] \in Range(pool')
            /\ IsInjective(pool')
        BY <2>1, <3>1, <3>2, AppendKeeps, Zenon
      <4>2. Len(pool) \in Nat
        OBVIOUS
      <4> QED
        BY <3>2, <4>1, <4>2
    <3> QED
      BY <2>1, <3>3
  <2> QED
    BY <2>2, <2>3, <2>4
<1>10. CASE CloseReturns
  BY <1>10 DEF CloseReturns
<1>11. ASSUME NEW u \in Urls, Redirected(u) PROVE PoolInv'
  BY <1>11 DEF Redirected, Hop
<1>12. ASSUME NEW answer \in Rules, RobotsSays(answer) PROVE PoolInv'
  BY <1>12 DEF RobotsSays, Said, Checked
<1>13. CASE RobotsUnreachable
  BY <1>13 DEF RobotsUnreachable, Said, Over, Stops
<1>14. CASE PageFails
  BY <1>14 DEF PageFails, Over, Stops
<1>15. CASE PageIsHtml
  BY <1>15 DEF PageIsHtml
<1>16. CASE PageRead
  BY <1>16 DEF PageRead, Reads, Over, Stops
<1>17. CASE UNCHANGED webVars
  BY <1>17 DEF webVars
<1> QED
  BY <1>1, <1>2, <1>3, <1>4, <1>5, <1>6, <1>7, <1>8, <1>9, <1>10, <1>11,
     <1>12, <1>13, <1>14, <1>15, <1>16, <1>17
  DEF WebNext, FetchStep

\* Rules are kept once and looked at before a page is asked for; the cache takes only
\* the page that was.
LEMMA RulesStep == WebInv /\ [WebNext]_webVars => RulesInv'
<1> SUFFICES ASSUME WebInv, [WebNext]_webVars PROVE RulesInv'
  OBVIOUS
<1> USE DEF WebInv, WebTypeOK, FetchOK, FetchInv, RulesInv, Allowed, Places
<1>0. /\ rules \in [Hosts -> Rules \cup {Unset}]
      /\ cache \in Seq([url : Urls, domain : Hosts])
      /\ said \in [Hosts -> Rules \cup {Unset, Unreachable}]
  BY DEF KeptOK
<1>a. \A e \in Range(cache) : e.url \in Urls
  <2> SUFFICES ASSUME NEW e \in Range(cache) PROVE e.url \in Urls
    OBVIOUS
  <2>1. e \in [url : Urls, domain : Hosts]
    BY <1>0, RangeTypes, Zenon
  <2> QED
    BY <2>1
<1>1. CASE NewTurn
  BY <1>1 DEF NewTurn
<1>2. CASE EndTurn
  BY <1>2 DEF EndTurn, Over, Stops
<1>3. CASE BudgetEnds
  BY <1>3 DEF BudgetEnds, Over, Stops
<1>4. CASE Close
  BY <1>4 DEF Close, Stops
<1>5. CASE Tick
  BY <1>5 DEF Tick
<1>6. ASSUME NEW u \in Urls, CacheHit(u) PROVE RulesInv'
  <2>1. Range(cache') \subseteq Range(cache)
    <3>1. PICK e \in Range(cache) : cache' = Used(cache, e)
      BY <1>6 DEF CacheHit, Cached
    <3> QED
      BY <1>0, <3>1, UsedKeeps
  <2>2. UNCHANGED <<rules, said, place, url>>
    BY <1>6 DEF CacheHit
  <2> QED
    BY <2>1, <2>2
<1>7. ASSUME NEW u \in Urls, Starts(u) PROVE RulesInv'
  BY <1>7 DEF Starts, Asks, Checked, Hop
<1>8. CASE RateAllows
  BY <1>8 DEF RateAllows, Hop
<1>9. CASE Connects
  BY <1>9 DEF Connects, Acquires
<1>10. CASE CloseReturns
  BY <1>10 DEF CloseReturns
<1>11. ASSUME NEW u \in Urls, Redirected(u) PROVE RulesInv'
  BY <1>11 DEF Redirected, Hop
<1>12. ASSUME NEW answer \in Rules, RobotsSays(answer) PROVE RulesInv'
  <2>1. /\ url \in Urls /\ Host[url] \in Hosts /\ rules[Host[url]] = Unset
        /\ rules' = [rules EXCEPT ![Host[url]] = answer]
        /\ said' = [said EXCEPT ![Host[url]] = answer] /\ cache' = cache
    BY <1>12 DEF RobotsSays, Said
  <2>2. \A h \in Hosts : rules'[h] # Unset => said'[h] = rules'[h]
    BY <1>0, <2>1
  <2>3. \A e \in Range(cache') : Allowed(e.url)'
    BY <1>0, <1>a, <2>1
  <2>4. answer # Unset
    BY DEF Rules
  <2>5. \/ place' = "idle"
        \/ place' = "rate" /\ url' = url /\ url \notin answer
    BY <1>12 DEF RobotsSays, Checked
  <2>6. place' \in {"rate", "page", "extract"} => Allowed(url)'
    BY <1>0, <2>1, <2>4, <2>5
  <2>7. place' # "robots"
    BY <2>5
  <2> QED
    BY <2>2, <2>3, <2>6, <2>7
<1>13. CASE RobotsUnreachable
  BY <1>0, <1>13 DEF RobotsUnreachable, Said, Over, Stops
<1>14. CASE PageFails
  BY <1>14 DEF PageFails, Over, Stops
<1>15. CASE PageIsHtml
  BY <1>15 DEF PageIsHtml
<1>16. CASE PageRead
  <2> DEFINE e == [url |-> url, domain |-> Host[current]]
  <2>1. /\ place \in {"page", "extract"} /\ place' = "idle"
        /\ cache' = Newest(Append(cache, e), CacheSize) /\ UNCHANGED <<rules, said>>
    BY <1>16 DEF PageRead, Over, Stops
  <2>2. e \in [url : Urls, domain : Hosts] /\ Allowed(e.url)
    BY <2>1
  <2> HIDE DEF e
  <2>3. \A d \in Range(cache') : d \in Range(cache) \/ d = e
    <3>1. cache \in Seq([url : Urls, domain : Hosts]) /\ e \in [url : Urls, domain : Hosts]
      BY <1>0, <2>2
    <3>2. ASSUME NEW T, cache \in Seq(T), e \in T
          PROVE  \A d \in Range(Newest(Append(cache, e), CacheSize)) :
                   d \in Range(cache) \/ d = e
      BY <3>2, NewestKeeps, Zenon
    <3> QED
      BY <2>1, <3>1, <3>2, Zenon
  <2> QED
    BY <2>1, <2>2, <2>3
<1>17. CASE UNCHANGED webVars
  BY <1>17 DEF webVars
<1> QED
  BY <1>1, <1>2, <1>3, <1>4, <1>5, <1>6, <1>7, <1>8, <1>9, <1>10, <1>11,
     <1>12, <1>13, <1>14, <1>15, <1>16, <1>17
  DEF WebNext, FetchStep

\* The inductive invariant holds in every reachable state.
THEOREM WebInvariant == WebSpec => []WebInv
<1>1. WebInit => WebInv
  <2> SUFFICES ASSUME WebInit PROVE WebInv
    OBVIOUS
  <2> USE DEF WebInit
  <2>1. WebTypeOK
    <3>1. inTurn \in BOOLEAN
      BY Zenon
    <3>2. FetchOK
      BY DEF FetchOK, Places
    <3>3. KeptOK
      BY DEF KeptOK, Rules
    <3> QED
      BY <3>1, <3>2, <3>3 DEF WebTypeOK
  <2>2. BadgeIsTrue /\ FetchInv
    BY DEF BadgeIsTrue, FetchInv
  <2>3. PoolInv
    BY DEF PoolInv, OneClientPerHost, IsInjective
  <2>4. RulesInv
    BY DEF RulesInv, Range
  <2> QED
    BY <2>1, <2>2, <2>3, <2>4 DEF WebInv
<1>2. WebInv /\ [WebNext]_webVars => WebInv'
  BY TurnType, FetchStepTypes, KeptStepTypes, FetchCallStep, BadgeStep, PoolStep, RulesStep
  DEF WebInv, WebTypeOK
<1> QED
  BY <1>1, <1>2, PTL DEF WebSpec

\* Type correctness: a fetch under way awaits the network only at robots.txt and at
\* its page.
THEOREM WebTypes == WebSpec => []WebTypeOK
<1>1. WebInv => WebTypeOK
  BY DEF WebInv
<1> QED
  BY <1>1, WebInvariant, PTL

\* The badge shows exactly the hosts the model read from in the turn, for any
\* number of hosts, pages, fetches and hops (FetchedDomains).
THEOREM BadgeIsAlwaysTrue == WebSpec => []BadgeIsTrue
<1>1. WebInv => BadgeIsTrue
  BY DEF WebInv
<1> QED
  BY <1>1, WebInvariant, PTL

\* For a pool of any size, a request has the one client of its host and the client
\* is not evicted under it (ClientRegistry.acquire).
THEOREM OneClientAlways == WebSpec => []OneClientPerHost
<1>1. WebInv => OneClientPerHost
  BY DEF WebInv, PoolInv
<1> QED
  BY <1>1, WebInvariant, PTL

\* For any number of hosts, pages and rules: a page that the model asked for is under
\* way or in the cache only if the rules of its host allow it (RobotsCache.refusal,
\* SessionCache).
THEOREM PagesAlwaysAllowed == WebSpec => []PagesAreAllowed
<1>1. WebInv => PagesAreAllowed
  <2> SUFFICES ASSUME WebInv, NEW u \in Urls,
                      (place \in {"rate", "page", "extract"} /\ url = u) \/ Cached(u) # {}
               PROVE  said[Host[u]] \notin {Unset, Unreachable} /\ u \notin said[Host[u]]
    BY DEF PagesAreAllowed
  <2>1. Allowed(u)
    BY DEF WebInv, RulesInv, Cached
  <2>2. Host[u] \in Hosts /\ rules[Host[u]] \in SUBSET Urls
    BY <2>1 DEF WebInv, WebTypeOK, KeptOK, Rules, Allowed
  <2>3. said[Host[u]] = rules[Host[u]]
    BY <2>1, <2>2 DEF WebInv, RulesInv, Allowed
  <2> QED
    BY <2>1, <2>2, <2>3 DEF Allowed
<1> QED
  BY <1>1, WebInvariant, PTL
=============================================================================
