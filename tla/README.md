# A verification project for the filtering DNS resolver

The program is one single-threaded C process. It receives DNS queries over UDP, answers queries of other types than A
with NOTIMPL, queries for names on a block list with NXDOMAIN, and forwards the rest to one upstream server, whose
answer it relays. This directory models it in TLA+: every module is written from the C source, checked with TLC on
small instances, and the modules at its core have theorems that TLAPS proves for every value of their constants.

## 1. Inventory

| Component | Source | State | Operations | Modelled by |
|---|---|---|---|---|
| Domain names | `filter.c` 85-239 | none | `normalize_domain`, `split_domain_labels` | `DomainName`, `DomainNameProofs` |
| Filter trie | `filter.c` 33-69, 246-439, 550-654 | tree of nodes with `label`, `is_blocked`, growing `children[]` | create, add, look up, free, statistics | `Filter`, `FilterText`, `MCFilter`, `FilterProofs` |
| Filter file loader | `filter.c` 458-545 | line buffer, two counters, the trie | `load_filter_file` | `Loader`, `FilterFile`, `MCLoader`, `LoaderProofs` |
| Message parser | `dns_parser.c` | cursor in the datagram, name buffer, the message's allocations | `parse_dns_message` and what it calls, `free_dns_message`, `dns_parse_query` | `Parser`, `Datagram`, `Wire`, `MCDatagram`, `ParserProofs`, `DatagramProofs` |
| Response builder | `dns_builder.c` | none | `build_error_response`, `build_dns_header`, `encode_dns_name`, `dns_build_error_response` | `Builder`, `Datagram`, `Wire`, `MCDatagram`, `DatagramProofs`; success or failure in `Server` |
| Upstream resolver | `resolver.c` | socket, retry counter, response buffer | `forward_query` | `Resolver`, `MCResolver`, `ResolverProofs` |
| Server loop and policy | `dns_server.c` | `server_running`, current query, response, four counters | `init_udp_server`, `run_server`, `process_dns_query`, `signal_handler` | `Server`, `FilterService`, `MCServer`, `ServerProofs`; the policy on bytes in `Datagram` |
| Process lifecycle | `main.c` | `g_config` and the three objects it points to, signal dispositions | `main`, `parse_arguments`, `signal_handler` | `Lifecycle`, `LifecycleProofs` |
| Logging, usage | `utils.c` | none | output only | not modelled |
| Build, tests | `Makefile`, `tests/`, `run_tests.sh` | none | read as statements of intent | not modelled |

### How they interact

`main` parses the command line, calls `load_filter_file`, which feeds `filter_add_domain` line by line, installs its
own signal handlers and calls `run_server`. That opens the socket, replaces the handlers and loops: receive, parse,
decide, reply. `process_dns_query` asks `is_domain_blocked` for the first question's name, then calls either
`build_error_response` or `forward_query`. `forward_query` blocks the only thread until it has an answer or has used up
its attempts. Nothing is shared between threads; what is shared with the environment is the kernel's receive queue,
the network, and the two flags and pointers that signal handlers touch.

### What is hard here, and what makes each component correct

- *Trie.* Any allocation can fail half way down a path. Correct: it answers exactly like the list of names it accepted,
  every node stays reachable (so that it can be freed), and `children[]` is never overrun.
- *Loader.* `fgets` returns pieces, the file format speaks of lines. Correct: the list is what the file's lines say.
- *Parser.* Lengths and pointers come from the network. Correct: no read or write out of bounds, it always returns, a
  failed message owns nothing, and it accepts exactly the well-formed question sections.
- *Builder.* It walks the raw bytes again, by other rules than the parser (no pointers). Correct: the reply carries
  the question; an encoded name reads back as the same text.
- *Bytes to verdict.* The decision is taken on a C string that was cut by `recvfrom`, followed through pointers, copied
  by `strdup` and converted twice. Correct: it is the decision for the name the client put on the wire.
- *Resolver.* Answers are lost, late, repeated, damaged; ports are reused; every step can fail. Correct: an accepted
  answer belongs to a query with that ID, nothing leaks on any return, every call returns.
- *Server.* Signals fall between any two steps, errors leave by many paths. Correct: a listed name never leaves, the
  counters add up, every query is settled, replies match queries, a signal stops the server.
- *Lifecycle.* A handler that frees memory interrupts code that uses or frees the same memory. Correct: nothing is
  freed twice, everything is freed once, a signal ends the process.

`PROJECT.json` lists the hazards at their lines, each with the properties that would catch it.

## 2. The modules

**`DomainName`** has the two text conversions as operators on sequences of characters; the empty sequence stands for
the return value -1. `normalize_domain` keeps the detail that matters: the copy loop stops after `len - 1` characters
and whatever is left then, even a blank, makes the name too long.

**`Filter`** identifies a node with its path of labels from the root, so the trie is a set of paths; `find_child`
succeeds when the longer path is in the set. `AddSucceeds`, `AddRunsOutOfMemory` and `AddRejected` are the ways
`filter_add_domain` returns. `capacity` is `children_capacity`. `accepted` is a history of the texts added
successfully: the list the trie stands for. The conversion of a text into labels is the parameter `LabelsOf`, so that
the proofs hold for every conversion; `MCFilter` gives it the real one.

**`Loader`** takes one step for each piece `fgets` returns. The trie is the set of names it marks; that a trie is such
a set is what `Filter` shows. `lost` remembers that `filter_add_domain` ran out of memory; a read error ends the loop like the
end of the file and leaves `rest` unread. The alphabet has a NUL,
because `strlen` stops there.

**`Parser`** is a machine with one step per turn of the loop of `parse_dns_name` and per stage of
`parse_dns_question` and `parse_dns_message`. Bytes are numbers 0..255 and beyond the datagram the buffer holds
`Stale` bytes. `furthest` and `filled` are histories of the largest index read and written. Every refusal and every
failed allocation is an action of its own that ends in `Abandon`, the code's cleanup. A malformed datagram ends in
`fail`, a lack of memory in `nomem`; the code returns -1 for both.

**`Builder`** has the bytes of the error response for the message `Parser` holds, and `encode_dns_name` as a function
of a text and a buffer size.

**`Datagram`** composes `Parser` with its three callers. `Receive` is `run_server`: `sent` is the client's datagram,
`packet` what `recvfrom` kept of it. Then the parser runs step by step, and one action for each branch of
`process_dns_query` takes the verdict with the real text conversions (`N == INSTANCE DomainName`) and the bytes of
`Builder`; between parsing and the verdict nothing can interfere, the process has one thread. The trie is the constant
`Blocked`, a set of label paths. `dns_parse_query` and `dns_build_error_response` are the wrappers the tests use;
`EncodeAndParse` is a query put together with `encode_dns_name`. `starved` remembers that the lookup ran out of memory.
A datagram shorter than a header is `Server`'s `ReceiveShort` and does not come in here.

**`Resolver`** is `forward_query` with the network. `upstream` is every query ever sent, `inflight` every datagram sent
back; neither shrinks, so a datagram may be received never, late, twice, or by a later call whose socket was given the
same port. A message carries the query it answers, from which come its transaction ID and question.

**`Server`** composes `run_server` and `process_dns_query` with `Resolver` (`R == INSTANCE Resolver`). A datagram has an
ID, a name, whether the type is A, and a *form* for what parser and builder do with it: `plain` parses and can be
replied to, `compressed` parses but has no error reply, `garbled` does not parse, `short` has no header, `empty` and
`tailed` have no question, without and with bytes after the header. `log` is a history of how each query was settled.

**`FilterService`** is the abstract specification: datagrams wait in order and each is settled by at most one reply,
of the kind the README of the program names for it. `Server` implements it (`ImplementsService`) under a refinement
mapping: `waiting` is the current query and the kernel queue, `settled` is the log.

**`Lifecycle`** is `main` with its two sets of handlers. A running handler is a record on a stack; while there is one,
`main` stands still; its own signal is blocked and the other one is not, which is what `signal()` means in a `gnu99`
build with glibc. `free` leaves pointers as they were, so objects are `null`, `live` or `freed`. `misused` is a history
of a free or read of freed memory, after which the allocator may or may not abort. A handler that falls inside a call
of `free` counts as before or after it.

**`FilterText`**, **`FilterFile`** and **`Wire`** hold reference definitions, written from the format and not from the
code that reads it, and the properties that compare the code with them: the subdomain rule on the characters of names;
what the lines of a filter file list; what the bytes of a datagram say (`LabelsAt` follows labels and pointers,
`EndOfName` finds where a name ends in place, `Names` reads a number of questions). They have no variables of their own
and are in modules apart so that theorems can be stated about them.

**`MC...`** modules give constants their small values. `MCLoader` also has the two sentences of the program's README
about filter files that the code does not keep.

## 3. The runs

| Run | Question | Result |
|---|---|---|
| `filter` | Does the trie answer like the list, under every order of insertions of 16 texts and every allocation failure? | holds |
| `resolver` | Whose answer does a call return, what is left open, does it return? | holds |
| `server` | Policy, counters, ownership, and refinement of `FilterService`, with every kind of datagram and failure | holds |
| `server_live` | Is every query settled, does a signal at any point stop the server? | holds |
| `datagram` | For every datagram of three fragments: the parser's bounds, ownership, verdict and termination; is the decision that for the name on the wire; does the error reply carry the question; do encoded names read back? | holds |
| `loader` | Is the list the list of the file's lines, over every file of four fragments? | holds |
| `lifecycle` | Where can the heap be misused and where not, is everything freed, does a signal end the process? | holds |
| `server_formerr` | Does a query that does not parse get FORMERR? | violated |
| `server_stats` | Is the number printed as blocked the number of blocked queries? | violated |
| `loader_comments` | Does a comment line list no name, however long? | violated |
| `loader_cr` | Does CR end a line? | violated |
| `lifecycle_signals` | Is nothing freed twice at a signal? | violated |

Properties that deserve a word:

- `LookupMatchesList` and `SubdomainRule` say the same of the trie at two levels: label paths, and characters ("a name
  is blocked when a listed name equals it or is its tail after a dot").
- `FailedAddChangesNoAnswer` is about steps: a failed insertion leaves intermediate nodes behind, and they must neither
  block nor hide anything.
- `AnswersQueryOrItsTwin` is the strongest statement the code supports. It compares only the transaction ID, so a late
  answer to an earlier query with the same ID, through a reused port, is accepted. `DistinctIdsSuffice` proves that this
  is the only exception.
- `BlockedNeverLeaves` is about everything ever sent upstream. If `is_domain_blocked` cannot allocate it answers "not
  blocked"; with the fault `lookup` the property claims less, and so does `FilterService` (`MayServeListed`).
- `StatsAddUp` ties the four counters to the log whenever the loop comes round.
- `PolicyOnTheWire` compares the verdict with the bytes the client sent, not with anything the program computed from
  them: the reference follows labels and pointers of `sent` and compares them with the list label by label. It covers
  the cut at `DNS_UDP_MAX_SIZE`, later questions (which play no part), and says when no reply is sent. It makes an
  exception for names whose labels hold a NUL, a dot or a blank: these the program decides by the text they become.
- `ReplyCarriesQuestion` also says what a query with two questions gets: a reply that announces two, carries one and
  cannot be parsed.
- `EncodedNamesParse` puts the boundary where it is: a text of `DNS_MAX_NAME_LEN` characters is encoded, if the buffer
  is larger than the 256 bytes callers use, into a name `parse_dns_name` refuses.
- `ListIsFile` is claimed for files whose lines fit the buffer, the last place included. A read error or lack of memory
  may only take names away. `CommentsAreIgnored` shows what
  happens beyond that.
- `ServingIsSafe` and `MisuseNeedsTwoCleanups` bound the damage `ShutdownIsGraceful` shows: a double free needs a signal
  during the cleanup after a failed bind, or one inside the other signal's handler; once the server serves there is none.

### Bounds, and why they are enough

- `filter`: names over two letters up to 5 characters, labels up to 2, `INITIAL_CHILDREN_CAPACITY = 1`. Every branch
  of both conversions is taken, paths share prefixes, and arrays grow from 1 to 2 and 4. No bound on insertions.
- `resolver`: three queries, two of them with the same ID; two ports; `UPSTREAM_RETRIES = 3` as in the code;
  `MaxInFlight = 2` so that a stale and a proper answer can meet. No bound on calls.
- `server`: nine kinds of datagram, two sent (`MaxDatagrams`), a queue of two, two attempts, one port, at most one
  `recvfrom` error (`MaxRecvErrors`). Two datagrams are what it takes for a late answer to reach the wrong query, a
  second query to be decided after a failure of the first, and a signal to fall between. `server_live` keeps the three
  rivals, all faults, a queue of one, so that overflow happens.
- `datagram`: at most two questions, names up to 6 bytes, labels up to 3, two pointers; fragments include pointers
  forwards, to themselves, to a label that leads back, into the header, and half a pointer. A loop of pointers takes
  two fragments, a name that overflows two labels and a pointer. `DNS_UDP_MAX_SIZE = 27` lets two whole questions in
  and cuts three fragments inside the second question or behind it. `Blocked` has a name of one label and one of two
  whose parent is allowed, so that equal, lower and upper names are asked for, and a listed second question follows an
  allowed first one. The wrappers get up to two fragments (`MaxTestFragments`), the encoder every text over a letter
  and a dot up to one character more than a name may have (`MaxText`), and buffers around that size (`Room`).
- `loader`: `DNS_MAX_NAME_LEN = 3` gives a buffer of 6, less than two of the longer fragments.
- `lifecycle`: three options read (`MaxOptions`), enough for both strings and one more. Signals are not bounded.

### Fairness

`Server`, `Resolver`, `Parser`, `Datagram` and `Lifecycle` assume weak fairness of the program's own steps: the
process is scheduled. For the two blocking receives that is justified by `SO_RCVTIMEO`, set on the listening socket to
1 s (`dns_server.c` 63-70) and on the upstream socket to 5 s (`resolver.c`): `recvfrom` returns even when nothing
comes. A third blocking call, `getaddrinfo` for an upstream given as a hostname, returns by the time-outs of the
system's resolver (`resolver.c` 67), also when that resolver asks this server. Clients, upstream and signals have no
fairness. A flood of signals that only interrupts `recvfrom` is not excluded, and need not be: in `forward_query` each
interruption uses up an attempt. `SignalEndsProcess` promises nothing after a misuse of the heap.

## 4. Findings

1. An unparsable query is dropped, although the program logs "sending FORMERR" and its README lists FORMERR
   (`dns_server.c` 111-118). Run `server_formerr`.
2. NXDOMAIN relayed from upstream is counted as blocked (`dns_server.c` 321). Run `server_stats`.
3. The tail of a comment beyond 509 characters is loaded as a domain (`filter.c` 485). Run `loader_comments`.
4. CR does not end a line; names run together (`filter.c` 485). Run `loader_cr`.
5. A signal during the cleanup after a failed bind, or during the other signal's handler, frees the configuration twice
   (`main.c` 29-46). Run `lifecycle_signals`.

Noticed while modelling, without a run of their own: `-s x -h` leaks the option strings (`ExitReleasesAll` makes the
exception); the README claims exponential backoff where the resolver waits a fixed 5 s; the error reply to a query
with two questions announces two and carries one; a query whose name has a compression pointer gets no error reply
though it parses; only the first question of a datagram is looked up; a name with a NUL in a label is looked up as the
text before the NUL; a filter path that names a directory loads an empty list and the server starts.

## 5. The proofs

Every theorem holds for all values of the constants that satisfy the named assumptions; TLC evaluates the assumptions on
the instances of the runs.

| Theorem | Says |
|---|---|
| `FilterTypeCorrect`, `NothingOrphaned`, `LookupCorrect`, `ChildrenAlwaysFit`, `FailedAddHarmless` | the filter's type invariant, `NoOrphans`, `LookupMatchesList`, `ChildrenFit`, `FailedAddChangesNoAnswer` |
| `AcceptedNames`, `NamesBelow` | what the two conversions return for any text; labels of one name begin with those of another exactly when it is that name or below it |
| `JoinedNames` | what the filter reads in labels joined by dots: those labels, last to first, in lower case |
| `SubdomainRuleHolds` | `SubdomainRule`, for every set of texts over any alphabet |
| `LoaderTypeCorrect`, `LoaderInvariant`, `LoadedListIsFile`, `LoadedCountsCoverLines` | the loader's type invariant, its inductive invariant, `ListIsFile`, `CountsCoverLines` |
| `ParserTypeCorrect`, `ParserReadsInBounds`, `ParserWritesInBounds`, `ParserOwnsAllOrNothing` | the parser's type invariant and the three safety properties, for every datagram |
| `CallersTypeCorrect`, `CallersStayInBounds`, `ReadsInsideQueryBuffer`, `CallersOwnAllOrNothing` | the same under the three callers of `Datagram`, and that `run_server`'s parser stays inside `query_buffer` |
| `ParserAcceptsExactly` | `AcceptsExactlyWellFormed` |
| `RepliesCarryQuestion` | `ReplyCarriesQuestion` |
| `EncodedNamesReadBack` | `EncodedNamesParse` |
| `DecidedByTheWire` | `PolicyOnTheWire` |
| `ParserRunsDown`, `CallsRunDown` | bounds on the steps of `parse_dns_message` on any datagram, and of a call of `forward_query` |
| `QueriesRunDown`, `StoppingRunsDown`, `EndingRunsDown` | bounds on the steps until a query is settled, a signalled server has stopped, a process that handles a signal has ended |
| `ResolverTypeCorrect`, `CallsLeakNothing`, `AnswerProvenance` | the resolver's type invariant, `NothingLeaks`, `AnswersQueryOrItsTwin` |
| `DistinctIdsSuffice`, `DistinctIdsReplies` | if queries have distinct IDs, a call returns the answer to its own question, and every reply answers its query |
| `ServerTypeCorrect`, `ServerInvariant`, `LoopHoldsNothing`, `BlockedStaysInside`, `RepliesCarryTheirQuery`, `StatisticsAreExact` | the server's type invariant, its inductive invariant, `NothingHeldBetweenQueries`, `BlockedNeverLeaves`, `RepliesMatchQueries`, `StatsAddUp` |
| `ServerImplementsService` | the refinement: `Spec => Service!Spec` |
| `LifecycleTypeCorrect`, `LifecycleInvariant`, `MisuseIsBounded`, `ServingStaysSafe`, `ExitReleases` | the lifecycle's type invariant, its inductive invariant, `MisuseNeedsTwoCleanups`, `ServingIsSafe`, `ExitReleasesAll` |

*Filter.* The inductive invariant is `TypeOK /\ NoOrphans /\ BlockedIsList`. `LookupMatchesList` alone is not inductive:
it speaks of the names of `RawDomain` only and not of nodes. `BlockedIsList` says that the marked nodes are the label
paths of the accepted texts, `NoOrphans` that the walk from the root reaches them. `ChildrenFit` is inductive
together with the finiteness of the set of nodes, with lemmas on the cardinality of a node's children before and after a
path is created. Assumed: `LabelsOf` yields sequences of labels, the first capacity is positive.

*Domain names.* There is no machine here, only operators, whose definitions count: the k-th visible character, the k-th
label from the right. A counting lemma does the work: in a finite set of integers the rank of a member (how many are not
above it) grows with it, and each rank is some member's. With it: `Visible` of a text, that leading blanks change
nothing, that neighbouring labels of a name share the dot between them (`LabelsAdjoin`), and so that two names with the
same labels from the right are equal from the right (`NamesBelow`). The least member of a set of numbers
(`LeastNumber`) stands for induction; it is proved from the finiteness of intervals.

*The subdomain rule* follows from `LookupCorrect` and `NamesBelow`. Assumed: the parameter `LabelsOf` of `Filter` is the
real conversion, for the texts in question (`LabelsAreOfText`).

*Loader.* The inductive invariant speaks of files whose lines fit the buffer: after each piece the characters read end
with a line or just before its newline (`AtLineEnd`), the list is what the lines read so far list (a subset of it if
memory ran out) and the two counters are between the numbers of lines of each kind. The step needs that a piece says the
same as the lines it completes, a piece being either a line with its end, a lone end, or a last line without one;
blanks and CRs at its end are the loader's and the format's to drop, in two different ways. Assumed: files are sequences
of characters, and lower-case letters are characters.

*Resolver.* The invariant adds that every datagram in flight answers something that was sent (`AnswersWereAsked`) and
what each place of the call owns (`CallState`): the socket and buffer that the error paths of `forward_query` rely on.
Assumed: `UPSTREAM_RETRIES` is at least 1.

*Server.* The invariant is the resolver's under the instance (each step of `Server` is a step of `R!Spec` or a stutter),
what the thread holds at each place of the loop (`ThreadState`: while it forwards, the query in the buffer is the one
asked upstream, and it is one that may be), the counters at every place of the loop (`CountersAddUp`; `StatsAddUp` is
about one place only and not inductive: in between, the query in the buffer is counted and not yet in the log), and the
three properties. For the refinement, the initial state maps to the initial state, the arrival of a datagram to an
arrival, the end of a query to its settlement with a reply `Replies` allows, a datagram the kernel drops and everything in
between to stutters. Assumed: bounds are natural numbers, and the null pointer is no datagram and no response.

*Lifecycle.* `main.c` frees in one order everywhere, so that what a cleanup still has to do is a tail of one of two
lists (`Cleanups`). The invariant says what is live or freed by what is still to do: what is live is on the list of
every running handler (`HandlersOwn`), what is freed is not on the list of the only cleanup that runs (`FreedOnce`), and
once the loop runs the handlers are those that free nothing (`StopHandlers`). Assumed: the bound on options is a number.

*Parser.* The invariant adds `Walking`: what the length tests of each stage hand on to the next one, such as the room
left in the name after a label, which `EndName` needs for its terminator, and that a question is only begun while fewer
than `qdcount` are kept. Assumed: datagrams are sequences of bytes, the header has at least the six bytes that
hold `qdcount`, the limits are positive.

*Datagram.* `HandleInv` is the parser's invariant and `FitsBuffer`, that what `run_server` has parsed is no longer than
`query_buffer`. An arrival is a call of the parser with some bytes, a step of the parser a step of `Parser`, a decision
leaves the parser's state alone, and the end frees the message.

*What is accepted.* The definitions of `Wire` are recursive functions over the places of a datagram, and the prover
knows of such a function only that it is chosen to satisfy its equation if some function does. That one does is proved
for two schemes (`StepRecursion`: from 0 up to a bound; `UpwardRecursion`: from the end of the datagram backwards), by
the least place at which no partial solution exists. With it each definition unfolds (`LabelsAtIs`, `EndOfNameIs`,
`DottedIs`, `NamesAre`). The invariant `WireInv` relates the parser's cursor to them: the names announced are those kept
followed by what `Names` reads from `offset` on; inside a name, the labels at its start are those read so far followed by
those at `pos` with the pointers still allowed, and it ends in place at `offset` once a pointer was followed and
where the part at `pos` ends before that. So a refusal happens only where the definition has no name, and the end is
reached only with all of them.

*What a reply carries.* `build_error_response` walks the raw bytes by its own rules; an induction over places shows that
where its walk ends, it has passed a whole name without pointers and `QuestionEnd` is behind the four bytes that follow
(`WalkEnds`), that it ends so for every such name (`WalkPasses`), and that a name reads the same wherever its bytes are the same
(`InPlace`). `FirstInv` says that the type and class kept for the first question are the bytes behind its name, `ReplyInv`
which states have a reply. Assumed for these two: `Bad` is no sequence of names, and the header has the twelve bytes
`build_dns_header` writes (`HeaderOfTwelve`).

*What the encoder writes.* `Labels` and `Collapsed` are recursive over the places of a text and unfold by the same
schemes; the labels of the text behind each place (`Spells`) are defined beside them. From the last place back to the
first: as no label is longer than `DNS_MAX_LABEL_LEN`, what is written is bytes (`LabelsType`, `QueryType`); a datagram
that holds these bytes and a zero behind them (`HoldsName`) reads as those labels (`WrittenReads`); joined by dots they
are as long as what was written (`LengthsAgree`) and are the text without the dots that separate nothing, since a
character stays exactly when it is in a label or is the dot before the next one (`SpelledText`, `CollapsedText`).
`EncodedInv` says that the datagram at hand is the one put together from `encoded`, and with `WireInv` the parser then
hands out that text. Assumed: texts are C strings, bytes without a NUL, and sizes are numbers (`TextsAndRooms`).

Assumed throughout `DatagramProofs`: datagrams are bytes.

*What the server decides.* Three texts stand between the wire and the list: the bytes `recvfrom` kept, the text
`parse_dns_name` makes of labels, and what the two conversions of `filter.c` make of that text. What was kept is a front
of what was sent (`IsFront`). A name that can be read in the front is the same name in the whole datagram, pointers
included, with its end at the same place (`NameOfFront`, `EndOfFront`), and if it needs a pointer there it needs it
here (`PointerOfFront`); these are inductions over places and over the pointers still allowed, and they need that the
front has the name at all: a cut name makes the datagram malformed and it is dropped. `Dotted` gives a text that is
nothing but the labels with a dot between two of them (`NameJoins`); for labels without dots, blanks and NULs the
conversions find these labels again, from the last to the first (`JoinedNames`, `FilterReadsLabels`). `OnList` asks the
same from right to left that the walk from the root asks of label paths (`ListedIsOnList`). The inductive part is
`DecisionInv`, which says of each end of a query what its first question was and which code its reply has; with
`WireInv` and `FirstInv` the rest follows in one state. Assumed besides: the list's labels
are sequences of characters (`ListedNames`), as those `filter_add_domain` creates are; and the assumptions of the
paragraphs above.

*Steps run out.* That a loop ends under fairness is beyond the prover; that it cannot go on is a safety property, and
proved: a number (or for the parser five, compared one after the other) that bounds what is left, that every step of the
component itself decreases and no step of its environment increases, and that is 0 only at the end.

- Parser: the stage, the questions left, the part of a question, the pointers left, the bytes left. A pointer may lead
  back and a new question may follow pointers again, which is why a single number would not be natural. Needed beside
  the parser's invariant: inside a name the cursor is inside the datagram or just behind it.
- `forward_query`: two steps for each attempt left and four more. Late, foreign and repeated answers each use up an
  attempt, as in the code.
- `Server`: the steps of the call and those around it: a query in the buffer is settled after
  at most `2 * UPSTREAM_RETRIES + 7` steps of the thread, and after a signal it stops after at most
  `2 * UPSTREAM_RETRIES + 10`, wherever the signal fell (one datagram may still be received, the flag is only read at the
  top of the loop). Steps of `Resolver` come with its theorem through the instance.
- `Lifecycle`: the cleanup that runs last. A second handler starts a cleanup from its beginning, but only its own will
  be finished, and what is left of the first one no longer counts; so no signal puts the end off. `run_server` is a
  single place in that module, whose steps are those of `Server`.

With weak fairness of the component's steps, and where one is always enabled until the end, these are the liveness
properties below; that last part is what TLC checks.

*Model-checked only.* The liveness properties (`QueriesAreSettled`, `SignalStopsServer`, `CallReturns`, `ParserReturns`,
`SignalEndsProcess`): fairness and `ENABLED` are out of the prover's reach. Every invariant and action property that a
passing run checks is also a theorem.

## 6. Not modelled, and why

- `utils.c`: logging and usage, no state.
- `create_upstream_socket`: only a unit test calls it; `forward_query` opens its socket itself.
- `filter_insert`, `filter_lookup`, `filter_free`: wrappers that pass their arguments on.
- `filter_print_stats` beyond the three numbers it prints first: an average for the verbose output.
- The value and range of `-p`, hostname resolution: abstracted to success or failure.
- The length of upstream answers: one beyond 512 bytes is cut by `recvfrom` and relayed in that form, a limit the
  program's README names.
- Letters beyond A and B in either case: `tolower` is the same for all of them.
- The width of the four counters (`unsigned long`).

## 7. Plan

Done, in this order: `DomainName`, `Filter` and its proofs; `Resolver` and its proofs; `Server` with `FilterService`;
`Parser` and its proofs; `Loader`; `Lifecycle`; `Builder`; `Datagram` and its proofs; the proofs of `Server` with the
refinement, of `Lifecycle`, of the conversions and the subdomain rule, of `Loader`; the types of the callers, what the
parser accepts, what its replies carry and what it reads of an encoded name.

Then `PolicyOnTheWire`, from the names in a front of a datagram to the labels the filter finds in the parser's text; and
the bounds on steps of the parser, a call, the server and the process.

Left: nothing the properties of section 3 ask for. Three things would widen the project. The counters could be given
their width. Upstream answers could have a length, so that the cut in `recvfrom` shows. And `Server` could be shown to
be what `Datagram` refines where both model `process_dns_query`; today they are tied by the abstraction of a datagram's
*form* and by the reader.
