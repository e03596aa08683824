# Verification of spooler-go

TLA+ models of the Go client of the Spooler queue API, the TLC runs that check
them on small instances, and TLAPS proofs of what matters most for every
instance. The models are written from the source; paths below are relative to
the repository.

## 1. The system

The package is a client library. It keeps nothing on disk. What makes it hard
is that every operation that changes a spool is a request that can be lost,
late, repeated or answered by a gateway, and that the client must neither
repeat a change nor tell its caller something about it that is not so.

| Part | State it keeps | Operations | Hard behaviour | What makes it correct |
|---|---|---|---|---|
| attempt loop, `internal/httputil/client.go` `Do` | per call: the failures so far, the delay the last answer asked for, the body of the attempt being prepared | send, wait, retry, give up | cancellation and deadlines against timers, late answers, bodies that do not reopen | no forbidden retry, no failure lost, no wait past the deadline, no body left open, every call returns |
| failures and policies, `client.go` `retry`, `retrySend`, `attemptUnknown`, `resultUnknown`, `errors.go` | none | classify a failure, decide a retry, build the caller's error | a verdict after an attempt nobody answered | a failure without `ErrResultUnknown` changed nothing |
| error answers, `errors.go` `httpError`, `parseDetails`, `client.go` `toKind`, `httputil` `StatusError` | none | read a kind, a message and details from an answer | answers that are cut, of another shape, of a newer version, of a gateway | what the answer says reaches the caller, and nothing it does not say |
| enumerations, `errors.go`, `domain.go` | five tables | `toWire`, `fromWire`, `UnmarshalJSON` | names this version does not know | a value is read as the one that has the name; an unknown state fails its page |
| operations, `client.go` | `Client.once`, and the hook and result of each | 18 operations, `Clone` | the end of an operation handed from `doData` to its caller and on to a stream; a client used before its key is set, cloned, used again; headers of a success that do not parse | one hook around each, nothing of a success lost to the rest of it, no body left open, a clone starts afresh |
| `dataStream`, `client.go` | the body, `sync.Once`, the close's error | `Read`, `Close` | concurrent reader and closers | ends once, tells the right error, nobody returns before the end |
| `TracingRoundTripper` and the composition of hook sets, `internal/httputil/httputil.go`, `*_gtrace.go` | `connectDone` | `ConnectStart`, `ConnectDone`, `Compose` | a dialer that races addresses; sets without a hook, hooks without a func | each attempt is told of its end, to each observer |
| `StreamEncoder` and the debug dump, `internal/httputil/stream.go`, `internal/httputil/client_trace.go` | the source's offset and size, `used` | `Encode`, `Open`, dump | a transport still reading for an older attempt; a dump that reads the body first | a retry sends the whole payload |
| iterators, `iter.go` | a cursor per walk | `Queues`, `Messages` | a listing that changes, empty pages with a cursor, items of a newer version | nothing skipped, nothing twice |
| `Exponential` and `Doer`, `internal/backoff` | the schedule | `Delay`, `Do`, `Try` | overflow, jitter, resets, ended contexts | delays and calls bounded |
| conversions of domain types, logging hooks | none | | | not modelled, see section 7 |

An operation checks its request, calls the `OnRequest` hook and then
`httputil.Client.Do`, handing it a policy (a function) and a payload (an
encoder). `Do` opens the payload, draws a delay from `backoff.Exponential` and
sends through `http.Client`, whose transport calls back into
`TracingRoundTripper` and reads the body in its own goroutine. The failures of
all attempts come back as one `AttemptErrors`, which `rpcError` turns into the
caller's error. A delivery may outlive its operation's call as a `dataStream`,
which then ends the operation. Goroutines share the `Client` (initialised
once), a stream, a round trip's `connectDone`, and a payload's source.

## 2. Modules

| Module | Models | Uses |
|---|---|---|
| `Wire` | the tables of the enumerations and the ways a name is read | |
| `Failures` | the failures of attempts, the three policies, the caller's error | `Wire` |
| `ErrorAnswers` | an answer outside 2xx as it comes, and what is read of it | `Failures` |
| `HttpDo` | the attempt loop against any server and any network | `Failures` |
| `CallPromise` | abstract: what an operation that changes something promises | |
| `SpoolCalls` | calls, the network and the server together; refines `CallPromise` | `HttpDo` |
| `Operations` | the 18 operations as a table | `Wire` |
| `SuccessHeaders` | the headers an operation reads of a success, and what becomes of each | |
| `OperationLife` | an operation from `init` to the end of its hook, on a client or a clone of it | `HttpDo`, `Operations`, `ErrorAnswers`, `SuccessHeaders` |
| `DataStream` | a payload stream under a reader and closers | |
| `Hooks` | hook sets and their composition | |
| `ConnectTrace` | the connection hook under a racing dialer | `Hooks` |
| `ReplayBody` | a payload source under overlapping attempts and under the dump | |
| `Listing` | a walk over pages | `Wire` |
| `Exponential` | the delays of a strategy | |
| `Doer` | the loop of the backoff package over them | `Exponential` |
| `*Proofs` | the theorems of the module of that name | |
| `MC*` | the constants of the runs | |

How state and actions correspond to code:

* **HttpDo.** `pc` is the place in the loop of `Do`: `flight` inside
  `c.http.Do(req)`, `decide` between an attempt's failure and the next wait,
  `wait` in the select. `errs`, `after`, `wait` and `used` are the variables
  `errs`, `retryAfter`, `backoff` and `streamBody.used`. `GiveUp`,
  `CannotReopen`, `TooLate` and `Prepare` are the four ways from `decide`, with
  the guards in the code's order. `Resend` and `CutWait` are the two arms of
  the select; both can be enabled, as select picks either. Time is what is left
  of the caller's deadline; each wait spends its length and each answer any
  part of the rest.
* **SpoolCalls** gives every step of `Do` that touches the network its effect
  there. A message is a call and the number of its attempt. The server is
  external: its answers before a change, its dedup window and its leases are
  what `attemptUnknown`, `retrySend` and the comments on `RetryUnknown` and
  `Lease` rely on. A gateway may answer a 5xx at any moment of a request. Whether
  a request left is a fact of the network here (`NeverConnected`), apart from
  what the client makes of the error (`RequestSent` of `Failures`): the two can
  disagree when a payload is itself fetched over a network, and its source's
  failed dial comes back as the error of the request.
* **ErrorAnswers** has an answer as a record of what the code tells apart: the
  status, the Retry-After header's form, whether the body is the API's object
  and fits in the bytes that are kept, its kind's name, message and details.
  `StatusOf` is what `Do` makes of it and the policies see, `HttpError` what
  `httpError` adds to the caller's error.
* **OperationLife** adds `Client.init`, `Client.Clone`, the refusals of
  `Operations`, the hook, the answers and the outcome. `client` is each
  client's `once` with its outcome, `key` its `APIKey`. `hook`, `told` and
  `given` are the hook's calls, the error given to its func and the caller's
  error; `answer` is the last answer as it came, of which `errs` of `HttpDo`
  has the failure. Of a success `headers` says which of the headers the
  operation reads are there and readable; `ReadHeader` reads them one after the
  other, as `parseRecvResult`, `parseInspectResult` and `Renew` do, into
  `result`, and `reported` counts the calls of `OnMalformedResponse`. A delivery
  does so inside its hook; the hook of a renewal is over by then, so that a
  header of it that does not parse is reported after the operation.
* **DataStream** has a step for each point at which another goroutine can
  observe `Read` or `Close`: entering `sync.Once`, closing the body, telling
  the hook, leaving.
* **ReplayBody** counts the source's bytes by their place. A read and a seek
  are a step each, as with an `os.File`; a `bytes.Reader`, which carries `Data`
  too, moves its position unsynchronised, and what two goroutines then get of it
  is outside the model.
  With a `DebugWriter` (`debug`) an attempt first is in the state `dump`, where
  the dump reads the source to its end, and only then `open`.
* **Hooks** has a hook as what a call of it does: the observers it tells, and
  the func it returns. `Compose` and `onConnect` are the generated functions,
  nil cases included; `Installed` is what `Client.init` puts together.
* **ConnectTrace** first has a caller compose sets one by one, each before or
  after what there is (`ComposeSet`), and a client install the result
  (`Install`). `asked` and `hearing` record what is due to each set on its own,
  so that what the composed hook does can be held against it. Then
  `ConnectStart`, `Keep` and `ConnectDone` are the two closures of `RoundTrip`,
  with a step of another racer possible between the call of the hook and the
  assignment to `connectDone`.
* **Listing** spells each item's state as the page does; an item in a state
  this version does not know breaks the walk, as `UnmarshalJSON` fails. A page is
  any sequence of the server that has the items it should, in order.
* **Exponential** is pure; **Doer** draws from it and follows `Do` line by
  line. A strategy has no negative `Constant`. The dialer and the listing are
  external.

Definitions whose comment begins with "Mutant:" are wrong on purpose: each is
what one bug would make of the definition after it, and a property of a run is
kept only if TLC finds it violated with that bug in place.

## 3. Runs

| Run | Question | Bounds |
|---|---|---|
| `http_do` | does the loop keep its rules? | 1 call, 3 attempts, deadlines 2, 4 and none, six answers, three transport failures |
| `one_call` | is the caller told the truth about its change? | 1 call, 3 attempts, seven requests, of six kinds of change and one with a payload whose own source may fail to dial, one key, one lease; 155,097 states |
| `two_calls` | also when two calls share a key and a lease? | 2 calls, 2 attempts each, four answers, nobody cancels; 113,763 states |
| `operation_life` | does every operation bracket itself, and tell what the answer said and what the success brought, on a client and on its clone? | 2 callers, one of which only makes a request that is refused; 2 attempts, 32 requests over the 18 operations, 12 answers, successes with every header readable, unreadable or absent and with each one unreadable alone; 103,189 states |
| `data_stream` | is a stream ended once and for everyone? | a reader, 2 closers, 2 reads |
| `connect_trace` | what does a racing dialer leave of the hook? | 2 racers, 2 addresses each, up to 2 hook sets of any kind in either order; 27,680 states |
| `replay_body` | is a complete retry the payload, and a dumped one always? | 3 attempts, 3 bytes, reads of 1 or 2, with and without the dump; 69,349 states |
| `listing` | is a walk complete and ordered? | 5 items, 4 matching, one of a newer state, pages of 2, any change at any time; 61,501 states |
| `backoff` | does the loop stop when it should, with the right error and delays within bounds? | 6 calls, strategies on both sides of the largest duration, resets on and off |
| `connect_told`, `resent_whole`, `long_answer` | see section 4 | same as `connect_trace`, `replay_body`, `operation_life` |

Why the bounds are enough. `Do` shares nothing between calls, so one call has
every behaviour of many; three attempts give a first retry, a retry after a
retry and the last one, and `HttpDoProofs` removes the bound. In `SpoolCalls`
a violation needs one attempt that is late and one that is answered; three
attempts let a third meet both, and two calls are what a lease or a key can
set against each other; `SpoolCallsProofs` removes these bounds as well. In
`OperationLife` the second caller is what may use a client, or clone it, before
the first one or after, and a request that is refused needs the client no less
than one that is sent; the requests have for each operation the whole one and
those that miss what one check of it asks for. Three addresses or closers would
add only repetitions of a race two can have. The answers are one of each class
a decision tells apart: retried by one policy, by all, by none, with and
without a delay, known and unknown in result; on the wire also of a newer
version, cut, and with details of each shape. Each header is read on its own, so
one that is unreadable among others that are not, at each place in the order, is
what could disturb the rest; the proof takes any headers. Cancellation, in `two_calls`, is
left to `one_call`, as is an answer that leaves the result unknown: of two calls
a timeout alone does. The end of a context is in `http_do`; the run
`operation_life` has none, and `OperationLifeProofs` any.

Fairness. `FairDoSpec` and `FairSpec` of `OperationLife` let the goroutine of a
call run on, and have `http.Client.Timeout` end a request nothing else ends:
`ClientBuilder.Build` sets a minute when the user set none. No fairness is
assumed of the server or of the network. `OperationLife` also has the caller
read a stream to its end or close it, as `RecvResult.DataStream` demands of it.
`DataStream` assumes only that a goroutine inside `Read` or `Close` goes on;
`Listing` that the loop does and the requests it makes return.

## 4. Disagreements found

* `connect_told`: with two addresses dialed at the same time, the func
  `OnConnect` returned for one is never called and the other's is called twice.
* `resent_whole`: after an answer that came before the whole body was taken,
  the transport may still be reading the source that the retry rewinds. Bytes
  it takes are missing from the retry, which fails as short of its length.
  `replay_body` shows that, of a source whose reads and seeks are each atomic, as
  an `os.File`'s are, it is not taken for whole: the loss is an error, and for a
  send one that leaves the result unknown, in place of a success. Nothing is
  shown of `Data` or of another in-memory reader, whose position two goroutines
  move without synchronisation.
* `long_answer`: of an answer the first 4096 bytes are kept, so that a longer
  error object does not decode. Its caller gets no `Error`, where `errors.go`
  says that every operation returns one for an answer that names a kind.

Read but not checked:

* A retries header that does not parse reads as -1 (`parseRetries`), where the
  comment on `ClientTrace.OnMalformedResponse` says zero of any such value; the
  comment on the field itself has the -1.
* No `CheckRedirect` is set: a redirect of a POST may be followed by a GET, and
  its 200 then counts as the operation's success.
* The reads of a stream are bounded by the minute of `http.Client.Timeout` too,
  where the comments name only the context of the receive or of the inspect.
* With a `DebugWriter` a delivery that is to be streamed is read to its end
  first, and one cut short loses the part that came; a source that fails while
  it is dumped is left partly consumed.
* Details that are `null` come out as details with every field zero.

## 5. What is proved

Every theorem holds for any values of the constants: any sets of calls,
requests, answers, failures, delays, keys and leases, and any number of
attempts, closers or bytes. The assumptions are on constants only, named where
the constant is declared, and evaluated by TLC. In each module none of the
properties is inductive alone; each follows from one invariant that is.

**`HttpDoProofs`** (`Inductive`): types (`Typing`), that an attempt whose
result is unknown is followed by another only on request (`UnknownRetries`),
that a payload that reads once is sent once (`OneShot`), that no failure is
lost (`FailuresKept`), that a wait is of the answer it follows and ends before
the deadline, with no body left open outside it (`Waits`), and that an ended
context lets one more attempt begin at most (`EndedContexts`).
`UnknownNeverRetriedUnasked` speaks of failures followed by an attempt, and
needs to know that the attempt in preparation was allowed by its failure
(`Policed`); that in turn needs how many failures there are at each place of
the loop (`Shape`). `WaitIsFresh` needs that `retryAfter` belongs to the last
failure while a call decides (`Prepared`). `EndedContextStopsRetries` needs that
a call found waiting when its context ended had not begun the one attempt it
has left (`Ending`).

The assumption to know of is `RetryKindsAssumption`: the kinds the policies
retry never come with a status that leaves the result unknown. `errors_test.go`
gives each of them a 409. Without it `retry` would resend after, say, a 502
with kind `queue_busy`, and `UnknownRetries` would fail.

**`SpoolCallsProofs`** (`LedgerKept`): that a failure without
`ErrResultUnknown` changed nothing and never will (`Honesty`), that a protected
change is made at most once (`Once`), and that calls, network and server
together implement `CallPromise` (`Kept`), the refinement the runs `one_call`
and `two_calls` check. Every step of the composition is a step of the loop or
leaves it alone, so the loop's invariant carries over. The rest of `Ledger` is
about the requests on the wire, at the server, and applied:

* `Tracked`: each is in one place and of an attempt that was begun. Without it
  a request could reappear after its call had judged it.
* `Settled`: a failure that is not unknown, in hand or still on its way, is of
  an attempt that is nowhere any more. This is `HonestFailure` carried through
  the time in which the answer travels.
* `Spent`: a change ends its lease and claims its key, and nothing under way
  holds a claimed key. It makes the second change of one call impossible while
  the window remembers.
* `Backed`: a success on its way, and a key the window remembers, stand for a
  change that was made; the promise's `ok` needs it.

**`OperationLifeProofs`** (`LivedKept`): that the hook brackets every
operation (`Brackets`), that what a success says reaches the caller
(`ReceiptsReach`),
that no body is left open (`AnswersClosed`), that a clone starts afresh
(`CopiesFresh`), and that what an answer says reaches the caller
(`AnswersReach`), for any answers on the wire. `Staged` ties the stage of an
operation to its loop, `Told` and `Received` hold what each way out leaves,
`Parsed` what there is after some of the headers were read, and `HasAnswer` that the answer kept is the one the last failure was made of;
`Keyless` that a client refuses for good only for its own history.
`ReceiptReachesCaller` speaks of an operation that is over; `Parsed` says at each
step which headers have their value and were reported (`Seen`) and that no other
was, needs that no header is read twice (`ReadsOnce`), and holds for any headers
that come. The
enumerations enter by one lemma, `Reading`: a name is read as the value that
has it and as no other, from the injectivity `TablesAssumption` states.

**`DataStreamProofs`**: that the operation ends once (`OneEnd`), that nobody
returns before it did (`ReturnedAfter`), and that the right end is told
(`HonestEnd`), for any number of closers and any payload. `Guarded` says how far
the end has come from the state of `sync.Once` and that one agent is inside,
`Staged` what that agent has done, `Reported` whose error it carries.

**`ReplayBodyProofs`**: that a body of the whole length is the payload
(`CompleteBodies`) and that a dumped one always is (`DumpedBodies`), for any
source, sizes of reads and number of attempts. The k-th byte an attempt reads is
at least k places on from the offset, and leaves as many places after it as
there are bytes still read after it (`InHand`): with other readings taking bytes
in between, a body of the whole length has no room for a byte but its own.

**`DoerProofs`**: that `Do` returns what the last call of its function did
(`LastError`), that an ended context lets one more call begin (`LateCalls`),
that the schedule counts from the last long call (`Schedule`), that no delay is
negative, past its limit or longer than a `time.Duration` and no loop passes its
bound of calls (`Typing`), and that the retries of the client's schedule wait
4.5s to 7.5s in all (`ClientWaits`), whatever the strategies draw. The delays
are a recursive function, which TLA+ gives a value by a choice: nothing is known
of it until there is a function that satisfies the recursion. The library's
induction takes an operator, which the provers here cannot instantiate, but
that finite sets are well founded is a fact about sets. From it follows that a
set of naturals has a least (`LeastOfNaturals`), and the least counterexample
then does what an induction would: there is a schedule (`ScheduleThereIs`), it
is `Nominal` (`NominalFollows`), and none of its delays is negative
(`NominalIsNatural`). `DelayInRange` adds the clamps and the jitter. `Waits` is
the invariant of `ClientWaits`: what the delays so far add up to. It holds of a
loop of `DefaultAttempts` only, which `WaitOfCall` had to say: in an unbounded
one a sixth delay may be under way while there were five calls.

**`ListingProofs`**: that a walk holds the listing's items only
(`TypeCorrect`), yields in order and nothing twice (`Ordered`), and, when it
came to its end, everything that was there all along (`Complete`), for any
listing, any size of pages and any change at any moment. Both need where in the
listing the walk stands: `Placed` has what was yielded and the page in hand in
order around that place, `Covered` has all that was there all along and lies
before it among what was yielded or is in the page. The cursor alone does not
say so, since a page in hand lies between what was yielded and its cursor.

**`ConnectTraceProofs`**: types (`TypeCorrect`), that an attempt that met no
other is told to the observers, in their order, of its beginning and once of its
own end (`Undisturbed`), and that each observer hears of as many ends as there
were (`Balance`), for any number of racers, addresses and hook sets composed in
any order. `Composed` is the induction over the sets, made a step at a time: what
is composed does what is due to each set, nil hooks and nil funcs included, and
no observer hears twice. `Funcs` says that the func in hand is the own one of
each attempt under way, or that both attempts met another; it needs `Met`, two
attempts under way at once have met. `Balanced` counts: every `ConnectDone` adds
one attempt to those that are over and, for each observer, one report to those
of some attempt, though it need not be the same attempt.

## 6. What is only model-checked

Every safety property of a passing run is proved, and the refinement with them.
What is left:

* Liveness, in every module (`EveryCallReturns`, `EveryOperationEnds`,
  `EveryEndReturns`, `EveryWalkEnds`): TLAPS cannot prove it here, nor anything
  that needs `ENABLED`. `EveryEndReturns` assumes that the close of a body and
  the hook's func return: a func that closes the stream it is told of would wait
  for itself inside `sync.Once`, and no run has one.
* That the tables of `Operations`, `SuccessHeaders` and `Wire` are the code's: they are constants
  of it, and the proofs take from them what the assumptions say.

## 7. What is not modelled

* The conversions of requests and results field by field, with the paths,
  queries and headers of requests and the texts of errors and values: they
  carry no state, and no decision of the client is taken on them but those in
  `Operations`, `Wire`, `ErrorAnswers` and `SuccessHeaders`.
* Three returns of `Do` before its first attempt: a failed `init`, a missing
  codec and a request `http.NewRequest` refuses. Like `CannotEncode` they send
  nothing and return an error without an attempt.
* `StreamEncoder`'s `Size`, which caps what is sent of a source, and the payload
  of no bytes, sent as `http.NoBody`.
* `OnMalformedResponse` of several hook sets, composed as `OnConnect` is.
* Hooks that only write a log, and the redaction of headers in the dump.
* Transports, TLS and request ids, which are put together once; redirects.
* The times of a retention limit: `MaxSeconds` of an answer is multiplied to a
  `time.Duration` unchecked, and only a server's mistake could overflow it.
* A `Retry-After` of any length is waited for when there is no deadline; the
  models bound delays by what the runs draw.

Abstractions that lose something: a read is one of a small number of lengths; a
power is cut to whole units at each step, where the code multiplies floats; time
is a number of units; a hook of `OnRequest` is not a composition, as that of
`OnConnect` is, though the code composes both alike. `Doer.Try` is its loop with
a bound of one or more: it panics on any other.

## 8. Plan

Done, in this order: `Failures`, `HttpDo` and its proofs; `CallPromise` and
`SpoolCalls`; `Operations` and `OperationLife`; `DataStream`; `ConnectTrace` and
`ReplayBody`; `Listing`; `Exponential` and `Doer`, composed; `Wire`,
`ErrorAnswers`, `Hooks`, clones, the dump; `SuccessHeaders`; the proofs of `SpoolCalls`,
`OperationLife`, `DataStream`, `ReplayBody`, `Doer`, `Listing` and
`ConnectTrace`, delays included.

Left: `OnRequest` and `OnMalformedResponse` of several sets in `OperationLife`,
through `Hooks`, whose composition is proved once for all hooks.
