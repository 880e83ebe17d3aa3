----------------------------- MODULE DocService -----------------------------
(***************************************************************************)
(* The documents of a session: DocumentService (broker/docs/service.py)    *)
(* behind the doc_rag plugin, the ingestion of a file in worker threads    *)
(* (ingest.py), and the encoder those threads share (encoder.py).          *)
(*                                                                         *)
(* An open awaits its thread; a turn that is cut abandons the await, and   *)
(* the thread runs on beside whatever the next turn opens.  The encoder is *)
(* built by whichever thread finds none, so that there may be several; one *)
(* goes by the name of the thread that built it.  A text is a model value  *)
(* with the zone its size puts it in; the files of the user change under   *)
(* the service at any time.                                                *)
(***************************************************************************)
EXTENDS Naturals, FiniteSets

CONSTANTS
  Paths, Names, Name,   \* the files, and the name of each
  Texts, Zone,          \* what a file may hold: "inject", "index" or "refuse"
  Workers,              \* ingestions at one time: bounds the abandoned ones
  None, Injected

Ids == Names \X (Nat \ {0})

ASSUME DocAssumption ==
  /\ Name \in [Paths -> Names]
  /\ Zone \in [Texts -> {"inject", "index", "refuse"}]
  /\ None \notin Workers \cup Ids /\ Injected \notin Ids \cup {None}

VARIABLES
  turn,        \* "on", "off", or "closed": the application is torn down
  disk,        \* what the files hold
  opened,      \* _opened_paths
  registry,    \* IndexRegistry._open: an id's index, the path and text it is of
  bound,       \* _bound
  opening,     \* the thread the open in progress awaits
  threads,     \* the threads of asyncio.to_thread
  parts,       \* the parts of each E5Encoder that are there; none is not built
  latest,      \* DocumentService._encoder
  handed       \* history: what the last open that succeeded handed to the model

files    == <<opened, registry, bound>>
encoder  == <<parts, latest>>
vars     == <<turn, disk, files, opening, threads, encoder, handed>>

Index   == [from : Paths, text : Texts]
Asleep  == [stage |-> "none", path |-> None, text |-> None, uses |-> None]
Stages  == {"none", "extract", "check", "build", "load", "session", "tokenizer",
            "inputs", "chunk", "encode"}
Parts   == {"object", "session", "tokenizer", "inputs"}
Thread  == [stage : Stages, path : Paths \cup {None}, text : Texts \cup {None},
            uses : Workers \cup {None}]

\* The state has the types of the fields it stands for.
TypeOK ==
  /\ turn \in {"on", "off", "closed"} /\ disk \in [Paths -> Texts]
  /\ opened \in [Paths -> Ids \cup {None}] /\ bound \in Ids \cup {None, Injected}
  /\ DOMAIN registry \subseteq Ids /\ \A id \in DOMAIN registry : registry[id] \in Index
  /\ opening \in Workers \cup {None}
  /\ threads \in [Workers -> Thread]
  /\ parts \in [Workers -> SUBSET Parts] /\ latest \in Workers \cup {None}
  /\ handed \in [kind : {"none", "text", "index"}, of : Index \cup {None}]
  /\ opening # None => turn = "on" /\ threads[opening].stage # "none"

Init ==
  /\ turn = "off" /\ disk \in [Paths -> Texts]
  /\ opened = [p \in Paths |-> None] /\ registry = <<>> /\ bound = None
  /\ opening = None /\ threads = [w \in Workers |-> Asleep]
  /\ parts = [w \in Workers |-> {}] /\ latest = None
  /\ handed = [kind |-> "none", of |-> None]

-----------------------------------------------------------------------------
(* The user and the turn *)

\* The user saves another text under the path.
Edits(p) ==
  /\ \E t \in Texts \ {disk[p]} : disk' = [disk EXCEPT ![p] = t]
  /\ UNCHANGED <<turn, files, opening, threads, encoder, handed>>

TurnBegins ==
  /\ turn = "off" /\ turn' = "on"
  /\ UNCHANGED <<disk, files, opening, threads, encoder, handed>>

\* The turn ends or is cut: the await of an open is abandoned, its thread is not.
TurnEnds ==
  /\ turn = "on" /\ turn' = "off" /\ opening' = None
  /\ UNCHANGED <<disk, files, threads, encoder, handed>>

\* close: the registry and the paths are dropped, and the loop ends.
Clear ==
  /\ turn # "closed" /\ turn' = "closed" /\ opening' = None
  /\ registry' = <<>> /\ opened' = [p \in Paths |-> None]
  /\ UNCHANGED <<disk, bound, threads, encoder, handed>>

-----------------------------------------------------------------------------
(* docs__open *)

Hands(kind, index) == handed' = [kind |-> kind, of |-> index]
Known(p) == opened[p] # None /\ opened[p] \in DOMAIN registry

\* open of a path already indexed: selected again, its file not looked at.
Reopens(p) ==
  /\ turn = "on" /\ opening = None /\ Known(p)
  /\ bound' = opened[p]
  /\ Hands("index", registry[opened[p]])
  /\ UNCHANGED <<turn, disk, opened, registry, opening, threads, encoder>>

Opens(p, w) ==
  /\ turn = "on" /\ opening = None /\ ~Known(p) /\ threads[w].stage = "none"
  /\ opening' = w
  /\ threads' = [threads EXCEPT ![w] = [Asleep EXCEPT !.stage = "extract", !.path = p]]
  /\ UNCHANGED <<turn, disk, files, encoder, handed>>

\* The thread is done; the open that awaits it returns.
Returns(w) ==
  /\ threads' = [threads EXCEPT ![w] = Asleep]
  /\ opening' = IF opening = w THEN None ELSE opening

\* A note: nothing is selected, and what was stays.
Refuses(w) == Returns(w) /\ UNCHANGED <<turn, disk, files, encoder, handed>>

\* Mutated form: a text handed over in full leaves the selection alone.
ExtractedUnbound(w) ==
  LET t == disk[threads[w].path] IN
  /\ threads[w].stage = "extract" /\ opening = w
  /\ \/ /\ Zone[t] = "inject" /\ Returns(w)
        /\ Hands("text", None)
        /\ UNCHANGED bound
     \/ /\ Zone[t] = "index"
        /\ threads' = [threads EXCEPT ![w] = [@ EXCEPT !.stage = "check", !.text = t]]
        /\ UNCHANGED <<bound, opening, handed>>
  /\ UNCHANGED <<turn, disk, opened, registry, encoder>>

\* The text is out, and its size decides: the model gets all of it, or it is
\* indexed in a thread.
Extracted(w) ==
  LET t == disk[threads[w].path] IN
  /\ threads[w].stage = "extract" /\ opening = w
  /\ \/ /\ Zone[t] = "inject" /\ Returns(w)
        /\ Hands("text", None)
        /\ bound' = Injected
     \/ /\ Zone[t] = "index"
        /\ threads' = [threads EXCEPT ![w] = [@ EXCEPT !.stage = "check", !.text = t]]
        /\ UNCHANGED <<bound, opening, handed>>
  /\ UNCHANGED <<turn, disk, opened, registry, encoder>>

\* It cannot be read, is too large, or nobody awaits it any more.
NotExtracted(w) == threads[w].stage = "extract" /\ Refuses(w)

-----------------------------------------------------------------------------
(* _encoder_once, which nothing serialises: who finds no encoder builds one, and  *)
(* puts it in the place of whatever was put there since.                          *)

Goes(w, stage) == threads' = [threads EXCEPT ![w] = [@ EXCEPT !.stage = stage]]

FindsNone(w) ==
  /\ threads[w].stage = "check" /\ latest = None
  /\ Goes(w, "build")
  /\ UNCHANGED <<turn, disk, files, opening, encoder, handed>>

Builds(w) ==
  /\ threads[w].stage = "build"
  /\ parts' = [parts EXCEPT ![w] = {"object"}] /\ latest' = w
  /\ Goes(w, "check")
  /\ UNCHANGED <<turn, disk, files, opening, handed>>

\* What it gets is what is there by now, also if it built another one.
Gets(w) ==
  /\ threads[w].stage = "check" /\ latest # None
  /\ threads' = [threads EXCEPT ![w] = [@ EXCEPT !.stage = "load", !.uses = latest]]
  /\ UNCHANGED <<turn, disk, files, opening, encoder, handed>>

-----------------------------------------------------------------------------
(* E5Encoder.load, which nothing serialises either: an encoder with a session is  *)
(* taken to be loaded.                                                            *)

Has(e, part) == part \in parts[e]

Adds(w, part) ==
  parts' = [parts EXCEPT ![threads[w].uses] = @ \cup {part}] /\ UNCHANGED latest

\* Mutated form: it waits for whoever made the session to finish.
LoadsAwaiting(w) ==
  /\ threads[w].stage = "load"
  /\ Has(threads[w].uses, "session") => Has(threads[w].uses, "inputs")
  /\ Goes(w, IF Has(threads[w].uses, "session") THEN "chunk" ELSE "session")
  /\ UNCHANGED <<turn, disk, files, opening, encoder, handed>>

Loads(w) ==
  /\ threads[w].stage = "load"
  /\ Goes(w, IF Has(threads[w].uses, "session") THEN "chunk" ELSE "session")
  /\ UNCHANGED <<turn, disk, files, opening, encoder, handed>>

SessionMade(w) ==
  /\ threads[w].stage = "session" /\ Adds(w, "session") /\ Goes(w, "tokenizer")
  /\ UNCHANGED <<turn, disk, files, opening, handed>>

TokenizerMade(w) ==
  /\ threads[w].stage = "tokenizer" /\ Adds(w, "tokenizer") /\ Goes(w, "inputs")
  /\ UNCHANGED <<turn, disk, files, opening, handed>>

InputsListed(w) ==
  /\ threads[w].stage = "inputs" /\ Adds(w, "inputs") /\ Goes(w, "chunk")
  /\ UNCHANGED <<turn, disk, files, opening, handed>>

\* EncoderUnavailable; the session made before it stays.
LoadFails(w) == threads[w].stage \in {"session", "tokenizer", "inputs"} /\ Refuses(w)

-----------------------------------------------------------------------------
(* The index *)

Chunks(w) ==
  /\ threads[w].stage = "chunk" /\ Has(threads[w].uses, "tokenizer")
  /\ Goes(w, "encode")
  /\ UNCHANGED <<turn, disk, files, opening, encoder, handed>>

\* count_tokens finds no tokenizer; or a chunk is over the window, or there are
\* more of them than the ingestion's time allows.
NotChunked(w) == threads[w].stage = "chunk" /\ Refuses(w)

\* Mutated form: the name is the id.
RegisterReplacing(p) == <<Name[p], 1>>

\* _register: the name, with a suffix that is free; which one is of no matter.
Register(p) ==
  <<Name[p], CHOOSE n \in 1 .. Cardinality(DOMAIN registry) + 1 :
               <<Name[p], n>> \notin DOMAIN registry>>

\* IndexRegistry.put
Put(id, index) ==
  registry' = [i \in DOMAIN registry \cup {id} |-> IF i = id THEN index ELSE registry[i]]

\* The index is registered and selected, if its open is still awaited.
Encoded(w) ==
  LET p == threads[w].path
      index == [from |-> p, text |-> threads[w].text]
      id == Register(p)
  IN
  /\ threads[w].stage = "encode" /\ Has(threads[w].uses, "inputs") /\ opening = w
  /\ Put(id, index)
  /\ opened' = [opened EXCEPT ![p] = id] /\ bound' = id
  /\ Hands("index", index)
  /\ Returns(w)
  /\ UNCHANGED <<turn, disk, encoder>>

\* The encoder fails, or the index is discarded with the open that was cut.
NotEncoded(w) == threads[w].stage = "encode" /\ Refuses(w)

-----------------------------------------------------------------------------
(* docs__query *)

\* The latest encoder has no session: the query loads it, or fails to and leaves
\* behind what it has come to.
QueryLoads ==
  /\ turn = "on" /\ opening = None /\ bound \in DOMAIN registry
  /\ ~Has(latest, "session")
  /\ \E made \in {{"session"}, {"session", "tokenizer"}, Parts} :
       parts' = [parts EXCEPT ![latest] = @ \cup made]
  /\ UNCHANGED <<turn, disk, files, opening, threads, latest, handed>>

\* What a query made now may answer: that no document is open, that the text is there
\* in full, or the passages of the index that is selected, found with the encoder; or
\* that the encoder cannot be loaded.  One with a session is not loaded again, and
\* raises where a part is missing.
Answers ==
  LET answer(kind, index) == [kind |-> kind, of |-> index] IN
  IF bound = Injected THEN {answer("text", None)}
  ELSE IF bound \notin DOMAIN registry THEN {answer("none", None)}
  ELSE IF ~Has(latest, "session")
       THEN {answer("index", registry[bound]), answer("unavailable", None)}
  ELSE IF Has(latest, "tokenizer") /\ Has(latest, "inputs")
       THEN {answer("index", registry[bound])}
  ELSE {answer("raises", None)}

-----------------------------------------------------------------------------

ThreadStep(w) ==
  \/ Extracted(w) \/ NotExtracted(w)
  \/ FindsNone(w) \/ Builds(w) \/ Gets(w)
  \/ Loads(w) \/ SessionMade(w) \/ TokenizerMade(w) \/ InputsListed(w) \/ LoadFails(w)
  \/ Chunks(w) \/ NotChunked(w) \/ Encoded(w) \/ NotEncoded(w)

Next ==
  \/ TurnBegins \/ TurnEnds \/ Clear \/ QueryLoads
  \/ \E p \in Paths : Edits(p) \/ Reopens(p) \/ \E w \in Workers : Opens(p, w)
  \/ \E w \in Workers : ThreadStep(w)

\* A thread that was started runs.
Fairness == \A w \in Workers : WF_vars(ThreadStep(w))

Spec == Init /\ [][Next]_vars /\ Fairness

-----------------------------------------------------------------------------
(* Properties *)

\* More than one encoder was built, the later one over an earlier.
SeveralEncoders ==
  \E e, f \in Workers : e # f /\ Has(e, "object") /\ Has(f, "object")

\* A query answers from the document that the model was last handed, whichever
\* opens were refused, failed or cut meanwhile, and of a text it got in full it says
\* so.  It answers nothing, or raises, only where the threads of a cut open and of a
\* later one both built the encoder, and the one that is not loaded came to stay
\* (_bind, open, _encoder_once).
AnswersTheLastOpen ==
  turn = "on" => \A answer \in Answers :
    answer = handed \/ (answer.kind \in {"unavailable", "raises"} /\ SeveralEncoders)

\* A path that was opened keeps an index of its own, whatever other files of the
\* same name are opened after it (_register, _opened_paths).
IndexesAreKept ==
  \A p \in Paths : opened[p] # None =>
    opened[p] \in DOMAIN registry /\ registry[opened[p]].from = p

\* An open returns, whatever becomes of its file and of the encoder.
OpenReturns == opening # None ~> opening = None
=============================================================================
