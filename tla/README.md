# A TLA+ model of the news system

The repository holds a small news system in C++: a server that keeps news groups
and their articles in an SQLite file, a console client, and a protocol of one-byte
codes between them.  The modules here model all of it from the source in
`src/src/`, TLC checks them on small instances, and TLAPS proves the most
important results for instances of every size.  Paths below are relative to the
repository; `newsserver.cc:173` stands for `src/src/newsserver.cc`, line 173.

## 1. The system

```
 user -> cin -> newsclient.cc ---- Connection/MessageHandler ---- newsserver.cc -> DatabaseInterface
                (menu, prompts,     (bytes on a TCP socket)        (main, handlers)   |          |
                 handlers)                                          Server        Database   DiskDatabase
                                                                   (select)     (std::map)   (SQLite, news.db)
```

| component | state it keeps | operations | interacts by |
|---|---|---|---|
| `DatabaseInterface` (`databaseinterface.h`, `article.*`, `newsgroup.*`) | none; promises a store of groups and articles | `list_news_groups`, `create_news_group`, `delete_news_group`, `list_articles`, `create_article`, `delete_article`, `get_article` | calls from the handlers |
| `Database` (`database.*`) | two `std::map`s, two id counters | the seven | not used by `main` |
| `DiskDatabase` (`diskdatabase.*`) | the file `news.db`, one `sqlite3*` per process | the constructor and the seven, each of one to three SQL statements | calls from the handlers; the file is shared with any other server started in the same directory |
| `Server` (`server.*`) | `connections`, `pending_socket`, the listening socket | `waitForActivity`, `registerConnection`, `deregisterConnection` | `select`, `accept` |
| `Connection` (`connection.*`) | a socket | connect, `read`, `write`, close | TCP; `ConnectionClosedException` |
| `MessageHandler` (`messagehandler.*`) | none between calls | `send_*`, `recv_*` | one `read` or `write` per byte |
| `Protocol` (`protocol.h`) | none | the codes | |
| `newsserver` (`newsserver.cc`) | the command being served | the loop of `main`, seven handlers | all of the above, in one thread |
| `newsclient` (`newsclient.cc`) | the stream state of `cin`, the command being asked for or executed | menu, prompts, seven handlers | `cin`; one connection |

Outside `src/src`'s own code are SQLite (only its header is there), the kernel's
sockets, and two compiled test clients in `src/tests/`.

What is hard about it, and what each part must get right:

* **Store.**  Ids are given once, names are unique, a group takes its articles
  with it, and `NO_NG`, `NO_ARTICLE`, `true` and `false` say what happened.
  Long sequences of legal calls (delete a group, create another, use an old id)
  are where `Database` goes wrong.
* **Disk.**  There is no transaction around the statements of a call, hardly any
  result of SQLite is looked at, and nothing stops two servers from sharing the
  file.  Kills between two statements, locks and stale checks must not make rows
  that belong to nothing, nor an acknowledgement of what did not happen.
* **Server loop.**  One thread with blocking reads and writes: whatever a client
  does in the middle of a command, the others must keep their connections, no
  descriptor may leak, and nobody may wait for ever.
* **Protocol.**  The two sides are written separately.  The server begins its
  answer before it has read the command, calls the database before it has read
  `COM_END`, and writes to clients that may be gone.  Every command must be
  executed at most once and answered with its own result.
* **Bytes.**  Tokens are cut in bytes, and either process may go between two.
* **Console.**  `cin` mixes `>>` and `getline`, mistyped lines, typing ahead and
  the end of the input.

`PROJECT.json` lists these as hazards, each at its line, with the properties that
would find it going wrong or the reason why none does.

## 2. The modules

| module | models | abstraction of / composed of |
|---|---|---|
| `NewsStore` | the store behind `DatabaseInterface`: which changes of the rows are allowed at all | abstract |
| `NewsService` | the seven operations: change and result in one step | abstract, extends `NewsStore` |
| `Database` | `database.cc` | implements `NewsStore` |
| `Database_proofs` | theorems about it | |
| `DiskDatabase` | `diskdatabase.cc` for any number of processes on one file | implements `NewsStore` |
| `DiskDatabase_proofs` | theorems about its rows | |
| `DiskAnswers` | `DiskDatabase` with a history of the instants of each call | answers as `NewsService` whatever call is not disturbed |
| `DiskAnswers_proofs` | theorems about its answers | |
| `Protocol` | the messages as either side lays them out | pure operators |
| `Sockets` | connections as queues of tokens | pure network steps |
| `NewsServer` | `server.cc`, `newsserver.cc` | `Protocol`, `Sockets`, an instance of `NewsService` |
| `NewsClient` | the handlers of `newsclient.cc` towards the server | `Protocol`, `Sockets` |
| `NewsBoard` | the whole system as its users see it: questions, operations that take effect, answers | abstract, an instance of `NewsService` for each user |
| `NewsSystem` | clients, connections, server and store interleaved | `NewsServer`, `NewsClient`; implements `NewsBoard` |
| `NewsSystem_proofs` | theorems about the server's descriptors | |
| `NewsMessages_proofs` | lemmas: what one side writes is what the other reads, for each operation and result | extends `NewsSystem_proofs` |
| `NewsExchange_proofs` | theorems about the exchange of commands and answers, the refinement of `NewsBoard`, and mutual waiting | extends `NewsMessages_proofs` |
| `MessageHandler` | `messagehandler.cc`, byte by byte, over one connection | implements the token steps of `Sockets` |
| `MessageHandler_proofs` | theorems: bytes implement tokens | |
| `ClientConsole` | the menu and prompts of `newsclient.cc` | hands over to `NewsClient!GiveCommand` |
| `ClientConsole_proofs` | theorems about the dialogue | |

`MC*` modules only give values to constants.  Definitions keep the source's names
(`article_exists`, `pending_socket`, `read_line_cin`).  Each module has a section of
*faulty variants*: definitions with a plausible bug in them, which no action
uses.  Putting one in the place of the definition it varies must break a property;
`PROJECT.json` says which (`mutants`), and that is how the properties themselves
are tested.

The levels fit together by refinement rather than by one big model.
`MessageHandler` shows that bytes implement tokens, so the system may use tokens.
`DiskAnswers` shows that a call which no other process disturbs is answered as
`NewsService` does, in one step and with the change of the rows in that step, and that a
server which has the file for itself is never disturbed (`OneServerServes`): so
the system, which has one server on the file, may use `NewsService`.  `ClientConsole` ends where a complete command is
handed over, so the system may start from complete commands.  And `NewsSystem` as a whole implements
`NewsBoard`, in which there are no connections, messages and processes any more.

### How state and actions correspond to the code

**`NewsStore`, `NewsService`.**  `groups` and `articles` are sets of rows
`[grpID, name]` and `[artID, grpID, content]`; `usedGroupIds` and `usedArticleIds` are
the ids ever given out (both implementations count upwards and never go back).
Title, author and text travel together in `content`.  `reply` is the last call and its
result.  Lists are sets of pairs: no caller depends on their order.

**`Database`.**  `news_groups` and `articles` are functions on the keys of the two maps,
`ngCount` and `artCount` the counters; one action for each member function.  It keeps
what the code keeps: the entry of a deleted group stays in `articles`, and a group has
none before its first article.  `MaxGroups` and `MaxArticles` bound the counters in the
guards.  `Groups` and `Articles` are the refinement mapping: the rows of the groups that exist.

**`DiskDatabase`.**  `file`, `tables`, `newsgroups`, `articles` and `sequence`
(`sqlite_sequence`) are what is on disk.  `pc[p]` is the statement that process `p` is
about to run, `conn[p]` what its `sqlite3*` remembers: whether the `PRAGMA` was given,
whether `get_article` left a statement open, and which schema it has read.  One SQL
statement is one step, because SQLite makes it atomic; between two statements
anything may happen.  A call is `Call`, then `news_group_exists` and `article_exists` where
the code calls them, then the action named after the member function.  `Stop` kills a
process at one of the `StopPoints`; `Start` begins with the constructor.  SQLite's own
behaviour (keys, `UNIQUE`, `AUTOINCREMENT`, foreign keys per connection, `SQLITE_BUSY`
without a busy handler, a stale schema with the old `sqlite3_prepare`) is modelled from the
statements the code runs, and is marked external in the map.

**`DiskAnswers`.**  Three history variables: `seen[p]`, what was in the file about the group and
the article of `p`'s call at each instant of that call; `calm[p]`, whether nobody else had a lock or
was at a statement during it; `answer`, what the last step answered.  No step depends on them.

**`Protocol`, `Sockets`.**  A code, a number and a string are one token each, laid out
for either side from that side's own handlers: `Command`, `FirstReads` and `ReadsAfter` from
`newsclient.cc`, `ParamTypes` and `Answer` from `newsserver.cc`, so that a disagreement between
the two programs would show.  `inbox[c][end]` is what one end of a connection can still
read, `ends` whether each end is open, `backlog` the connections that the kernel has made
and the server not accepted.  `Write` blocks while `Capacity` tokens are on their way, and
what is written to a closed connection is lost, or fails; a read fails at the end
of the stream and may fail, after a reset, before it.  A connection has the name of its
client process; once both ends are closed, another process may use the name again.

**`NewsServer`.**  `phase` is where the one thread is: in `select`, between accepting and
registering, or at a read, the database call or a write of a handler.  `serving`, `op`,
`params`, `answer` and `sent` are the handler's progress.  `AcceptClient`, `AcceptFails` and
`WaitForCommand` keep the order of `waitForActivity`: a new client goes first, then
the earliest connection that is ready.  `accept` fails for want of a descriptor, so that both count
`Descriptors`, the ends that `accept` returned and nobody closed, and not the vector: a
connection that left the vector unclosed would still count.  `Drop` is the handler of
`ConnectionClosedException` in `main`, `Exit` is `Server::error`.  The rows survive `Die` and `Start`.

**`NewsClient`.**  One process is one connection.  `unsent` is what is left of the command,
`reads` what is left of the answer (it grows as counts and `ANS_ACK` announce more), `told` what
the user got to see.  `Violated` is every refusal of `handle_protocol_ans`,
`error_message_handler` and `recv_*_parameter`.  Users give commands, leave and come back
without end.  `Kill` ends a process of `Mortal`, and its kernel closes the connection;
`Vanish` silences a machine of `Fragile` without a word to anybody, and `TimesOut` is the kernel
of the server giving such a connection up, which it does only if something was sent and not
acknowledged.

**`NewsSystem`.**  `request` and `outcome` are history variables: the call a client is executing,
kept after it has gone for as long as the server has its connection and may still execute it,
and the database call made for that, with its result.  No step depends on them; `Record` keeps
them in every step.

**`NewsBoard`.**  A user is away, idle or waiting for an answer.  `Ask` is a command given, `Execute` the
one moment at which it takes effect, on the store and in its outcome at once, `Answered` the end
of its answer.  A user may `Part` at any time; what was asked then takes effect later,
already has, or never does (`Drop`).  In the mapping, `Execute` is `CallDatabase`, `Drop` is the
server giving up the connections of clients that have gone (one in `Drop` of `NewsServer`, all in `Exit`), `Part` is
any way in which a client goes, and all that moves tokens is a stuttering step.  A server
that dies makes its clients leave (`GivesUp`) before they come back.

**`MessageHandler`.**  `unwritten` and `got` are the progress of a `send_*` and a `recv_*` call,
`wire` the bytes between.  `int` has 32 bits, `>>` keeps the sign, `char` is signed, and
`send_byte` keeps the low eight bits.  Either process may end between two bytes.  The
reader may ask for the wrong kind of parameter, as a server that meets a
foreign client would.

**`ClientConsole`.**  `input` is what `cin` can still give, as numbered lines of items;
`closed` and `cut` say that the input has ended, after a newline or within a line; `eof` is
`cin.eof()`.  `prompts` is what the current handler still asks for, `cin.ignore()`
included.  `Refuses` and `RefuseLine` are a failed `cin >> n`, `clear` and `ignore` to the newline.

## 3. What the runs check

All `pass` runs finish with every state visited.

| run | question | bounds, and why they are enough |
|---|---|---|
| `database` | Does `Database`, seen from the groups that exist, change as the store may (`ImplementsStore`), and do five of its operations answer as the interface asks (`CatalogueAnswers`)?  `ArticleInOneGroup`: articles left behind never turn up in another group. | 2 names, 3 groups, 2 articles, 2 contents: a group with articles can be deleted and another made under the same name, twice. |
| `database_no_group` | The two operations that `CatalogueAnswers` leaves out (section 6). | 2 groups, 2 articles |
| `disk_answers` | Two servers on one file, killed anywhere once they are ready: is a call that the other does not disturb one operation of `NewsService` (`CalmAnswersAsService`), and what is the answer of one that is disturbed still worth?  It denies nothing that was there all along (`DenialsWereTrue`), shows nothing that was not there at one instant (`ShownWasThere`), and a call ends its process only if it was disturbed (`EndsOnlyIfDisturbed`). | 2 names, 1 content, 2 rowids: a group and an article can go, and come back under another id, in the middle of a call of the other process, and a list has up to two rows of which one goes. The first start is `disk_shared`'s. Processes and names are symmetric; answers already given are left out of the states (`VIEW`), as no step or property depends on them. |
| `disk_shared` | Two servers on one file, killed at any stage, the constructor's included: no orphans (`ReferentialIntegrity`), unique ids and names (`OneRowPerKey`), only changes the store allows (`ImplementsStore`), no false acknowledgement of a creation and no change with a refusal (`AckMeansCreated`). | 1 name, 2 rowids: two writers meet on every table.  The processes are interchangeable (symmetry; only safety is checked). |
| `disk_recovery`, `disk_locked` | What a kill in the constructor and a lock do (section 6). | |
| `system` | Two clients that come, go and give commands without end, killed anywhere, and a server killed and restarted anywhere: no token is met where the protocol has it not (`ProtocolKept`), the call made is the call asked for, at most once per command, also for a client that has gone in the middle (`ExecutesWhatWasAsked`), the user is told its result and nothing is left in the buffer (`AnswersAreTrue`), and no client loses its connection because of another (`KeepsItsClients`). | All seven calls, any number of them; one group and one article, the id of the article different from that of the group so that a swap shows; 2 tokens of buffer, less than any answer and any command but the shortest. Symmetry. |
| `system_live` | Under fairness every command ends (`EveryCommandEnds`) and every client that goes is found gone (`GoneClientsAreDropped`), unless the server waits for a silent machine or the user of an earlier connection never stops (`Starved`); nobody waits in a circle (`NoMutualWait`); the system is a `NewsBoard` (`ImplementsBoard`); no descriptor leaks (`SocketsAccounted`), and the server ends by itself only with as many connections registered as it may have descriptors, whoever came and went before (`ExitsOnlyWhenFull`). | Three clients that come and go without end, one of them killed or silenced at any time, and two descriptors (`MaxSockets`, the limit at which `accept` fails): the third is the first to exceed them, and needs to give no command for that. Buffers of one token: the least there is, where two programs that both write would wait for each other.  `ImplementsBoard` is here rather than in `system` because of its cost: every step is compared with those of the board. The shortest and the longest command, the longest answer, and a creation that another user's list shows. No symmetry. |
| `bytes` | Does the byte level implement whole tokens (`TokenChannel`), and does no reader wait for bytes that nobody will send (`NeverWaitsInVain`)? | A code, a number, a string and a code, in 2 bytes of buffer; numbers and characters at the edges of the sign and of each byte. |
| `console` | Typing ahead, mistyped lines, the end of the input within or after a line: refused input is gone (`RefusedIsGone`), unfinished text is not sent (`CutOffIsNotSent`), and the end of the input ends the program at all prompts but one kind (`EofEndsMostPrompts`). | 5 lines out of 9, some of which answer several prompts, so that a whole article and a further command fit in. |
| `console_eof`, `console_text` | The prompts for a line, and a text without lines (section 6). | |

`CHECK_DEADLOCK FALSE` stands where all may be over: every client has left, every
line is typed, every token has arrived.  The databases can always be called,
and there deadlock is checked.

### Fairness

* `WF_vars(ServerNext)`: the server never sleeps but in `select`, `read`, `write`, which return
  when they can; starting it again after it ended is part of it, so that liveness is
  about a server that is restarted.
  Being killed (`ServerDies`) is not fair.  A read that blocks for a silent machine is no step
  of the server, so that nothing makes it end.
* `WF_vars(ExchangeNext(c))` for each client: once a command is given, `newsclient` sends and
  reads without waiting for the user.  Giving commands, connecting, leaving, being
  killed, falling silent and being given up by the kernel (`TimesOut`) are not fair.
* `WF_vars(ClientNext)` in `ClientConsole`: a program whose `cin` can give something goes on. The user
  need not type.

Weak fairness of the whole `ServerNext` is enough, as the server is one thread and
at most one of its steps makes sense at a time; nothing is assumed about which ready
connection it takes, because the code itself fixes that: `waitForActivity` takes a new connection
before any command and an earlier connection before a later one.  The first cannot starve
anybody, as each connection takes a descriptor until the server has looked at the others. The
second can, which is why `EveryCommandEnds` and `GoneClientsAreDropped` exempt a client that a
user of an earlier connection overtakes for ever (`Overtakes`).  The mutant that serves the latest
connection first breaks the property, so the exemption is not wider than the code's order.

## 4. What is proved

Each module of proofs holds for all values of the constants of the module it extends, under
the named assumptions of that module and no others.

**`DiskDatabase_proofs`**: any set of processes, names and contents, any
`StopPoints`, and any `MaxRowid` of at least 1 (`MaxRowidAssumption`).  With `Spec` of `DiskDatabase`:

* `TypeCorrect`: `[]TypeOK`;
* `KeysStandForOneRow`: `[]OneRowPerKey`;
* `NoOrphans`: `[]ReferentialIntegrity`;
* `RefinesStore`: `Spec => Store!StoreSpec`, the abstract store with the rows as its state and
  `1..sequence[t]` as the ids ever used;
* `AcksAreTrue`: `AckMeansCreated`, an acknowledged creation inserted its row in the step that
  answers, a refused one changed nothing.

The inductive invariant is `Inv == TypeOK /\ Enforced /\ OneRowPerKey /\ ReferentialIntegrity`.
`Enforced` says that every connection which can reach a statement has foreign keys
switched on.  Without it `ReferentialIntegrity` is not inductive: a process at its
`DELETE` without the `PRAGMA` would leave articles behind.  Its proof is that of the hazard at
`diskdatabase.cc:137`: `connect` is the only way out of the constructor, on both branches.

The argument goes over the rows: lemma `Rows` sorts the fifteen actions into *a group is
added*, *an article is added*, *a group and its articles go*, *an article goes*, *no
row changes* (`RowsChange`), using `Enforced` for the second and third.  `OneRowPerKeyStep`,
`ReferentialIntegrityStep` and `RowsAreStoreSteps` then need five cases each and know nothing
of processes, locks and schemas; `ProcTypeStep` and `EnforcedStep` are about those and know
nothing of the rows.  For `AcksAreTrue`, `AnswerFromStatement` shows that a creation is answered only by
the statement that inserts, and `OthersAreSilent` that nobody else answers in that step.

**`DiskAnswers_proofs`**, on top of it, with `HSpec` of `DiskAnswers`:

* `CalmCallsServe`: `CalmAnswersAsService`;
* `OnlyKillsEndCalmCalls`: `EndsOnlyIfDisturbed`;
* `DenialsAreTrue`: `DenialsWereTrue`;
* `ShownIsTrue`: `ShownWasThere`.

The inductive invariant `HInv` adds two things to `Inv`.  `SchemaRead`: a process that has read the
schema finds both tables.  `History(p)`: the current view of a call is among those in `seen[p]`;
what the checks of a call have found so far is still so if the call is calm, and for a denial it
was so in one of the views.  The work is in the first of these: the checks of a call and its statement are
separate transactions, and `ChecksStay` shows that what a check found holds until the statement,
because only another process at a statement could have changed it, and then the call is
not calm.

* `OneServerServes`: under the hypothesis `Alone(server)`, that there is no other process and that this one
  is not killed between the creation of the file and that of its last table (elsewhere it may be, and
  started again), every answer is to the call that was made and is one step of
  `NewsService`, no row changes in a step without an answer, and no call ends the process unless
  it is killed (`Serves`).

This is what `NewsServer` assumes when it calls `NewsService` in one step.  The hypothesis is the one that
`disk_recovery` shows to be needed.  `AloneInv` follows the constructor: how much of
the file there is at each of its stages (`FileAt`), so that no call ever meets a missing table or a
stale schema and all calls are calm; the rest is `CalmCallsServe` and `OnlyKillsEndCalmCalls`.  It
has no run of its own: the runs of these modules have two processes.

**`Database_proofs`**: any names, contents, `MaxGroups` and `MaxArticles` (`BoundsAssumption`).
With `Spec` of `Database`:

* `TypeCorrect`: `[]TypeOK`;
* `NoArticleMoves`: `[]ArticleInOneGroup`;
* `MapsImplementStore`: `Spec => Service!StoreSpec`, the store being the rows of the groups that exist;
* `CatalogueIsRight`: `CatalogueAnswers`, five of the seven operations answer as `NewsService`.

`TypeOK` is inductive by itself and carries the rest: it says that all keys lie below the
counters, so that `emplace` never meets a key (`EmplaceNew`), a new group has no articles left
behind under its id (`CreateGroupAdds`), and a new article is in no other map (`OneGroupStep`).
That both `MapsImplementStore` and `NoNgMeansNoGroup`'s counterexample hold is no contradiction: the store
is right, two answers are not.

**`ClientConsole_proofs`**: any set of lines made of numbers, words and `#done`, and any number of
them (`LinesAssumption`).  With `Spec` of `ClientConsole`:

* `RefusedLinesAreGone`: `[]RefusedIsGone`;
* `TypeCorrect`: `[]TypeOK`;
* `NothingCutOffIsSent`: `[]CutOffIsNotSent`.

`RefusedIsGone` is not inductive: nothing in it keeps a line from coming back.  `Numbered` says
that the lines in `input` ascend in the order they were typed and that every refused one lies below
them all.  `Takes(k)` is what all the reading functions have in common, the first `k` lines are gone
and the others stay, and keeps it; `FirstLine`, which `cin >> n` skips to, exists because a
nonempty set of naturals has a least element (`Least`).  `DialogueKnown` says that `prompts`
is always an end of what the handler of `command` asks for, so that a line or a text is the last
thing asked for by commands 2 and 5 (`WhereTextAndLine`); with `check_for_eof` after each of
these, `CutOffStep` follows.

**`MessageHandler_proofs`**: any codes that are bytes, any ints, any strings whose length an `int` can
say (`TokensAssumption`), any sequence of kinds of tokens, and buffers of any size (`FormatAssumption`).
With `Spec` of `MessageHandler`:

* `IntsSurvive` and `CharsSurvive`: `recv_int` undoes `send_int` for every 32-bit value, negative ones
  included, and the same for a signed `char`;
* `TypeCorrect`: `[]TypeOK`;
* `NoVainWaits`: `[]NeverWaitsInVain`;
* `BytesImplementTokens`: `Spec => TokenChannel`, every step of the byte level is a step of `Sockets` on
  whole tokens, or none.

The invariant `MInv` says, besides types, that what was received is the beginning of what was sent
(`TokensKnown`), that a `recv_*` function which goes on after its first byte is of the right kind and
short of its token (`Reading`), and, while there is a reader, that what it has read, what is on the
wire and what is still to be written are, put together, the bytes of the tokens sent and not received
(`InOrder`).  The last is stated without recursion: `IsCut` is a function that tells where in the stream each
token ends.  `OneMoreCarried`, `FirstCarried` and `RestCarried` are about streams only; `ByteMoves` says
that writing or reading a byte does not change the stream; `ReadsToken` and `WrongKindThrows` are
about the `recv_*` functions only, and rest on the two theorems about numbers and chars.  `NextByte` brings
them together: with the next byte a `recv_*` function of the right kind returns just the token that was
sent or goes on, one of the wrong kind throws.

**`NewsSystem_proofs`**: any number of clients, any backlog and any limit on descriptors
(`MaxSocketsAssumption`), kills and silent machines included.  With `Spec` of `NewsSystem`:

* `EverySocketIsAccounted`: `[]SocketsAccounted`;
* `AcceptFailsOnlyWhenFull`: `ExitsOnlyWhenFull`.

`DescriptorInv` adds what `SocketsAccounted` needs to be inductive: the vector and the backlog hold
each connection once (`Distinct`), the two and the pending socket have none in common, a
registration follows an `accept` that found room, and the server is serving somebody exactly in the
phases of a handler.  `accept` counts open descriptors; that these are as many as the vector is
long when it is called (`DescriptorsAreRegistered`) is a consequence of the invariant and the heart of
both theorems.  The lemmas about `Append`, `Tail` and `RemoveAt` on such
sequences are stated for any set; `DistinctCardinality` ties the length of the vector to the number of its
connections.  Most steps change none of this (`SocketsStay`); `Connect`, `AcceptClient`,
`RegisterConnection`, `WaitForCommand`, `Drop`, `Exit` and `Leave` have a lemma each.

**`NewsMessages_proofs`** and **`NewsExchange_proofs`**, on top of it: any clients, any calls over any
names and contents (`CallsAssumption`, `ContentsAssumption`), buffers of any size
(`CapacityAssumption`).  With `Spec` of `NewsSystem`:

* `TheAskedIsExecuted`: `[]ExecutesWhatWasAsked`;
* `AnswersTellTheOutcome`: `AnswersAreTrue`;
* `ProtocolIsKept`: `[]ProtocolKept`;
* `NoClientIsCutOff`: `KeepsItsClients`;
* `TypesOfTheSystem`: `[]TypeOK`;
* `SystemIsABoard`: `Spec => Board!BoardSpec`;
* `NobodyWaitsInACircle`: `[]NoMutualWait`.

None of the invariants is inductive: a state in which a client waits for an answer while something of another command
lies in its buffer satisfies all of them, and the next step breaks them.  The
invariant must say what is on its way, and whose it is.  `ExchangeInv` is `DescriptorInv` with two
flows for each connection:

* `CommandFlow(c)`: what lies in the server's inbox and what the client has not sent yet are, put
  together, what the server has still to read, `Ahead`.  That depends on where the server is with
  this client (`Place`): the `COM_END` of the call before, if its handler is not at the end yet, and
  then the command of the call in hand, of which a handler has taken its code and the parameters in
  `params` (`HandlerAt`).  A client may give its next command while the server has still
  to read the `COM_END` of the last, because the server answers before it reads that; this is the
  case for which `asked`, `done` and `rest` are existentially quantified, as a client
  that was killed in the middle leaves them behind.
* `AnswerFlow(c)`: there is a result and there are positions `r` and `m` in the answer to the call such that
  the client has read `r` tokens and been told what `ToldAt` says, its inbox holds those from `r + 1`
  to `m`, and `m` is what the server has written (`Written`).  Before the call of the database nothing
  but the answer's code is written, and that is the same for every result (`SameSoFar`),
  so that the result can still become what the database answers.

What the two need of the messages is in `NewsMessages_proofs`, and says nothing of the system.
`Script(o, result)` follows the client through the answer: each token is of the kind it asks for
(`Accepted`), what it expects after each is the kinds of the tokens that are left, a list's length
announcing the pairs behind it and `ANS_NAK` cutting the rest off (`Announced`), and the user has been
told the tokens so far (`Retold`).  `AnswerScript` proves it for the seven operations and their
results, by a case for each shape of answer.

`ExchangeStep` then has a lemma for each action (`RecvCommandInv`, `RecvParamInv`, `TheCallIs`,
`SendAnsInv`, `SendFlowInv`, `RecvGoesOn`, ...), and each of these is about the connection
that the action is about: `ClientStays`, `ServerStays` and `OthersStay` say once and for all why the
flows of the others do not change, `GoneFlow` what of a flow is left when a client is killed.

`SystemIsABoard` then needs no further invariant: `ExchangeInv` already says that the call in the handler is the
one its client asked for (`Recorded`), for a client that has gone just as for one that waits.
Each step of the server is `Execute`, `Drop` or, to the board, none (`ServerIsOnBoard`, with `CallTakesEffect` for the
database call and `RecordsStay` for the rest); each step of a client is `Come`, `Ask`, `Answered`, `Part`
or none (`ClientIsOnBoard`).  That an answer ends only after the operation took effect is
`AnswersTellTheOutcome`'s argument used again: the last token of an answer is one that the
server sends after the call.

`NobodyWaitsInACircle` is stated without `ENABLED`: `ClientCan` and `ServerCan` say what the next read or write
waits for.  Its proof is about who is served.  Whoever the server reads from has something to send and
either has sent it or has room (`ReaderIsServed`, as `CommandFlow` says that what is still to be
read is in the inbox or unsent); whoever the server writes to, with that buffer full, can read from it, or has only its
`COM_END` left to send, into an empty inbox (`WriterIsServed`); and when
the server serves nobody, a waiting client has its whole answer before it or an empty inbox to
write to (`WaiterIsServed`).  Two small invariants complete it: `main` begins with a connection only if
something can be read from it (`CommandIsThere`), and a server that does not run holds no
connection (`DownHoldsNone`).

Only model-checked: liveness (`EveryCommandEnds`, `GoneClientsAreDropped`, `EofEndsMostPrompts`), as
the prover does not do fairness and `ENABLED`.  Every other property of a passing run is stated by a
theorem.

## 5. What is not modelled

* **SQLite** beyond what its statements promise: pages, journals, a damaged file, a full
  disk, `sqlite3_open` on a directory without permission except as "cannot be opened". Row
  ids above 2^31 (read with `sqlite3_column_int`) would need as many insertions.
  The library is all but its header absent: `sqlite3.h` has 10,827 of the 12,471 lines that look
  like implementation, which are constants and declarations of which the code uses
  a dozen functions.  Nearly all of the 1,644 lines that are the repository's own are mapped.
* What a call on `news.db` *affirms* while another process disturbs it: a check that meets a
  lock counts as "exists", so that `list_articles` may call a group existing that is not, and
  `get_article` may answer `OK` with an article that has gone. `DiskAnswers` has these steps;
  the properties promise nothing about them, because the code does not.
* That the loops around `sqlite3_step` burn a processor while they wait for a lock.
* A foreign client that stops in the middle of a command: to the server it is a silent machine,
  which `NewsSystem` has.  `newsclient` has asked the user for everything before it
  sends the first byte, so that it never does this while it runs.
* `FD_SET` beyond `FD_SETSIZE`, where the limit on descriptors is above it (nothing in the code
  keeps it below); a result of `select` that is not looked at; `bind` while the port is
  in `TIME_WAIT` (`Start` may take as long as it likes).
* Strings of 2^31 characters (the guard on their length is in `Throws`), and the overflow of
  `int` counters in `Database`.
* Host names, ports, the command lines, wording and layout, memory that leaks with statements
  never finalized.
* In the console, one blank between two items of a line, and no number glued to a word.  A
  number that no `int` can hold is refused like a word.
* `pop_back` on an empty string is undefined.  With libstdc++ the length becomes the largest
  there is, the copy that `send_string_parameter` takes throws, nobody catches it, and the
  process ends with part of its command sent; the server sees a client killed in the middle
  of a command, which `NewsSystem` has.
* `Makefile` and the compiled test clients have no state of the system.

## 6. Where code and documents disagree

Each of these is a run that TLC must find violated, and a finding in `PROJECT.json`.

1. `NoNgMeansNoGroup`: `Database` looks for the group of an article among those that ever had
   one.  `get_article` and `delete_article` say `NO_NG` of a group that exists and has none yet,
   and `OK` or `NO_ARTICLE` of a group that was deleted with articles in it, against
   `databaseinterface.h:53` and `:63`.
2. `RefusedNameExists`: a server killed between `sqlite3_open` and the second `CREATE TABLE` leaves a
   file that every later server takes for a database (`diskdatabase.cc:229`).  All names are
   then refused as taken.
3. `DeletedGroupIsGone`: `DELETE` under another process's lock fails, and is acknowledged
   (`diskdatabase.cc:57`).  Another server need only have answered one `get_article`, which
   leaves its statement, and so its lock, open.
4. `EofEndsProgram`: Ctrl+D at a prompt for a line makes `read_line_cin` ask for ever
   (`newsclient.cc:67`); the menu promises that it ends the program.
5. `TextHasNewline`: an article whose text is ended at once has no newline for `pop_back` to remove
   (`newsclient.cc:176`).

The first does not reach a user today: `newsserver.cc:156` makes a `DiskDatabase`.

## 7. Plan

In the order of importance; the first nine are done.

1. `NewsStore`, `NewsService`, and `Database` against them: what a news database promises.
2. `DiskDatabase`: the one that is used, with kills, restarts and a shared file; its
   types, keys, referential integrity, refinement and acknowledgements proved.
3. `Protocol`, `Sockets`, `NewsServer`, `NewsClient`, `NewsSystem`: the two programs together,
   for safety, at the descriptor limit and for liveness.
4. `MessageHandler`: why tokens may stand for bytes, checked and proved.
5. `ClientConsole`: the dialogue with the user; its invariants proved.
6. `DiskAnswers`, with theorems: what answers are worth when the file is shared.
7. `Database`: types, isolation of deleted groups, refinement and answers proved.
8. `NewsSystem` proved: descriptors, then the exchange, whose invariant ties the tokens on
   their way to the progress of both handlers.
9. `NewsBoard`, the system as one abstract service, and the absence of mutual waiting, both proved;
   a single server on `news.db` proved to be the `NewsService` that the system uses.
10. Extensions of the model: two servers with clients of their own on one `news.db`
   (`NewsServer` over `DiskDatabase` instead of `NewsService`); the console in front of `NewsClient`.

## 8. Running it

`tlc -config X.cfg M` for a run, with `M` the `MC` module of `X` (`MCDatabase` for
`MCDatabaseNoGroup.cfg`, and so on), and `tlapm` on each of the modules `*_proofs` for the proofs. The
community modules must be on the path. The longest run takes about three minutes on two
workers, the longest proof (`NewsExchange_proofs`) about four; where a step is near a prover's usual time
limit, it names the prover and a longer one (`SMTT`, `ZenonT`).
