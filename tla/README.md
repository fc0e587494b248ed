# TLA+ models and proofs for cloud_perf_api

cloud_perf_api is a C server with an embedded Python converter. It polls a set
of XenServers for performance reports, has each report converted to one record
per virtual machine, keeps the latest record of every `(uuid, type)` in
MongoDB, and answers HTTP queries from there. This directory holds TLA+ models
of it, TLC configurations that check them on small instances, and TLAPS proofs
for all instances.

Line numbers refer to the files under `src/`. `PROJECT.json` lists, for every
definition, the lines it models.

## 1. The system

```
 config.json --> main -----login----> session table (hash.c)
                  |                        |  hmap_get
                  | pthread_create         v
                  +--> periodical_10m/_2h/_1w/_1y --Add_Queue_Item--> queue.c
                  |                                                     |
                  +--> 20 x periodical_get_perf <-----Get_Queue_Item----+
                  |       | curl: head_data/write_data/strip  (download)
                  |       | PyCall: converter.py              (interpreter lock)
                  |       v
                  |     mongo_conn  (one connection, no lock)  --> mongod
                  |       ^
                  +--> 100 x HTTP thread: api_handler -> get_perfdata -> query_perfdata
```

| Component | State | Operations | Interacts by | Hard because |
|---|---|---|---|---|
| **job queue** `queue.c` | linked list, `numitems`, `read_mutex`, `modify_mutex` | `Initialize_Queue`, `Add_Queue_Item`, `Get_Queue_Item`, `Free_Queue_Item` | shared memory, 4 producers and 20 workers | `read_mutex` is a semaphore in disguise: locked by one thread, unlocked by another, and outside `modify_mutex` |
| **session table** `hash.c` | open-addressed table; the *static* probe positions | `mk_hmap`, `hmap_add`, `hmap_get` | written by main, read by the periodical threads under a semaphore | the position is shared by all threads and read after `sem_post` |
| **scheduling** `server.c` main, `server_perf.c` `periodical_*`, `parse_json.c`, `mongoc.c` | the array of hosts, pointers into it | start-up; poll every host, sleep | calls the table and the queue | main moves the very pointer the threads copy; pointers are set back by subtraction |
| **collector** `get_perf_from_xenserver`, `PyCall` | interpreter lock, `mongo_conn`, the documents | download, convert, look up, insert or update | interpreter lock, MongoDB connection | many error returns with a lock held; look-up and insert are two requests; the connection is shared |
| **download** `head_data`, `write_data`, `strip` | the buffer of `data_return` | libcurl callbacks | called by libcurl | `strip` of the whole buffer after each piece |
| **report converter** `converter.py` | `vm_reports`, `host_report` | `load`, `get_vm_list`, `get_vm_data` | called with the interpreter lock held | exceptions in the middle; rows listed newest first |
| **perfdata query** `query.c` | none of its own | `query_perfdata` | the shared MongoDB connection | reads a socket others read too; looks for fields by names that the collector chose |
| **HTTP interface** `api_handler`, `get_perfdata` | none | dispatch on `call` | libevent, one base per thread | prefix comparison of the method's name |
| **shutdown** `exit_hook` | the interpreter | `Py_Finalize` | a signal to the process runs it on main's thread, which waits in `pthread_join` | takes the interpreter lock under running workers, never gives it back, and returns |

What makes each part correct, and where it is stated:

- queue: no job is lost, duplicated or overtaken (`ImplementsFifo`); the list,
  the counter and the owners of items agree (`ListConsistent`); no job sleeps
  with all workers (`NoLostWakeup`), and as long as one worker comes back from its downloads every
  job is taken (`EveryItemTaken`); a worker that is woken
  finds a job (`GetFindsItem` - it need not);
- table: no key is lost (`ChainsIntact`), a search comes closer to its entry
  whoever runs (`SearchApproaches`), ends, and ends at its own key
  (`GetReturns`, `StopsAtOwnKey`), a configured host is never reported absent
  (`NeverNull`), the value is the key's own (`ReturnsYourValue` - it need not be);
- scheduling: each round covers every host, in order, after its login
  (`RoundComplete`, `LookupAfterLogin`), again and again (`EveryHostPolled`);
  no thread dereferences a session that is not there (`NoThreadCrashes`);
- collector: the workers write one report at a time, each to its end
  (`ImplementsStore`); until replies are mixed up, a key has a second document only
  if a look-up of it failed (`UniqueDocument`), and a report misses only the records
  whose own write failed (`ReportStored`); no lock leaked (`LockDiscipline`); every
  report dealt with if mongod answers (`JobEnds`); a document inserted
  only if there is none (`InsertOnlyIfAbsent` - not with HTTP threads);
- shutdown: no report is cut off while it is being stored (`ExitCutsNoReport`),
  although Python may be finalised under a worker that has lent the lock inside
  `converter()`; and it is finalised in the end, if mongod answers (`ExitHookEnds`);
- download: nothing written outside the buffer (`NoOverflow`), nothing but white
  space lost of a body that begins with a letter (`OnlySpaceLost`), leading white space removed without a trace
  (`LeadingSpaceRemoved` - it is not);
- converter: nothing missing (`NothingMissing`), samples in the order of time (`NewestSoFar`), an error
  reported as an error (`ErrorReturnsNothing` - not always);
- query and HTTP: what is answered about a VM is what its columns of the report
  say, rounded, and nothing older (`AnswerIsReport`); a report changes the answers about
  its own VMs and its own type only (`OtherAnswersStay`); a sample has a value
  and a time (`SampleHasTime` - it has no time).

## 2. Modules

| Module | Models | State and actions |
|---|---|---|
| `FifoQueue` | what `queue.c` promises | a sequence of items and what each worker holds; `Put`, `Take`, `Release` |
| `Queue` | `queue.c` and the loop of `periodical_get_perf` | `items` is the linked list, head first; one action per statement another thread can observe (`AddLock`, `AddLink`, `AddPublish`, ...); `Fifo` maps `items`, reversed, to `FifoQueue!waiting` |
| `Hashmap` | `hash.c` as the server uses it | `map` holds, per slot, the entry of `config.json` whose session is there; `hash` is the static position of `__hmap_get`; `GetWait` to `GetReturn` are its statements, `Use` is the caller |
| `Periodical` | main's start-up and the four `periodical_*` threads | `hosts` and `copy[t]` are the `hosts` pointers as offsets; the table's variables and actions come from `HM == INSTANCE Hashmap`, and every step takes one of that module's or leaves them unchanged |
| `Download` | `head_data`, `write_data`, `strip` under libcurl | `buf` is the allocated memory, byte by byte; `write_data` takes the next piece, of any size |
| `Converter` | `converter.py` as `converter()` runs it | `vmReports` gives, per VM and variable, the column; one action per column of the legend and per record listed; a sample is `<<column, row>>`, so that a property can ask where it came from |
| `ReportStore` | what the collector promises of the collection | the jobs whose documents each key has, the writer and what it has still to write; `Begin`, `Drop`, `Start`, one step per record (`Replace`, `PutBeside`, `LeaveOut`), `Finish` |
| `Collector` | `get_perf_from_xenserver`, `query_perfdata` as a user of the connection, mongod behind a socket, `exit_hook` | `gil`, `docs`, `wire`, `exit`; one action per request and per reply, and one per error return; a request can be refused on a live connection (`FindRefused`, `WriteRefused`, and by the driver in `FindFails`, `WriteFails`) or lost with it; `failed` remembers which were, `mixed` that a reply has reached the wrong thread; `Store` maps it to `ReportStore` |
| `PerfData` | the way from the converter's list to the HTTP answer: the document that is written, `api_handler`, `get_perfdata`, `query_perfdata` | extends `Converter` by the documents; `Store` writes the list; the handlers are operators on `docs`, so a property can ask for the answer to any request in any state |

`MC<module>` gives constants to TLC; `<module>Proofs` holds theorems. An
operator whose comment begins "A broken variant" is not part of any
specification: it is a plausible bug, and `PROJECT.json` records which property
catches it.

What the models simplify:

- *Queue.* Memory is a finite set `Nodes`; `AddNoMemory` is `calloc` failing when
  it is used up. The contents of an item do not matter.
- *Hashmap.* Hash values are given by a constant function, so all collisions can
  be set up. Probing on insertion (`__oa_hmap_add`, one thread) is one step.
  `hash` is an aligned 32-bit word; that a read of it is not torn is an
  assumption about the platform. `__hmap_get` reads it again after `sem_post`;
  the compiled server does so too.
- *Periodical.* A login either returns (the step `Login`) or never does. A login
  that fails leaves a session that is stored all the same, and no session is ever
  renewed; what the XenServer then answers is left to the download. The four
  threads run the same loop: 10m, 2h, 1w and 1y differ in what they ask for and
  how long they sleep. The statements between `hmap_get` and
  `Add_Queue_Item` touch only the thread's own memory and are one step. The
  `memcpy` of a thread's `all_host_t` (server_perf.c:36-37) copies `size` structures
  where there is one; what it reads past the first is used by nobody and left out.
- *Download.* All white space is one byte, `SP`. Responses have a Content-Length
  (a response without one leaves the buffer pointer uninitialised), and `head_data` is
  taken to read its number right: server.c:85-92 copies it without a NUL into an
  uninitialised array, and what makes `atoi` stop is the line end of the header.
- *Converter.* Reports are XML or not; the legend, the times and one bad row are
  data. The contents of strings do not matter. A time stands for both
  `timestamp` and the `last_update` formatted from it.
- *Collector.* A job's number stands for its `time_stamp`. The order of the
  records within a report is any. The interpreter may hand its lock over once per
  job, between entering `converter()` and its return (`Yield`): often enough for
  any two jobs to meet there. `MaxErrors` bounds the requests refused in a run. That a
  write which mongod refuses changes nothing, and that a refused look-up is a reply
  without a document, is how the driver is modelled. A reply is received as a whole:
  two threads that read at the same moment may, beyond what is modelled, each get a
  part of one; after that, as after every mix-up, no property promises anything.
- *exit_hook.* main's thread is in `pthread_join` and runs the handler; signals
  before the threads exist are not modelled. `Py_Finalize` keeps the lock, so a
  worker that waits for it hangs, and one that asks for it afterwards - or a second
  signal - uses an interpreter that is gone (`EnsureFinalized`); both outcomes are there.
- *PerfData.* Writing the list is one step: each record is one request, and an
  HTTP request is answered from one document, so no answer can tell the step from
  its parts. That a key has one document, and what errors do to that, is the matter of
  `Collector`. A reading is an integer number of 1/`Unit`, or NaN. What is stored of
  it has gone through `str()` (12 digits) and, for a cpu, a product of doubles: it
  differs by `Rounding`, of which only a bound is assumed. `int` of a `double` is
  what x86-64's `cvttsd2si` makes of it: the fraction is cut, and NaN and what does
  not fit is the smallest int.

## 3. Runs

The longest run, `collector`, takes two to three minutes (261,492 states),
`perfdata` less than one (a million states), `queue` half a minute; the others take
seconds.

| Run | Instance | Shows |
|---|---|---|
| `queue` | 2 producers, 2 workers, 4 items | type, list, wakeups, FIFO refinement; every job taken while one worker comes back from its downloads |
| `queue_null` | 1 producer, 1 worker, 2 items | a worker gets NULL from a queue that has just been emptied (finding) |
| `hashmap` | 3 threads, 4 entries of 3 hosts in 6 slots | chains that collide, merge and wrap; no miss, every search approaches its entry and ends |
| `hashmap_race` | 2 threads | a lookup returns another host's session (finding) |
| `periodical` | 2 threads, 3 entries of 2 hosts in 5 slots | rounds complete, after the logins, for ever; no thread crashes |
| `collector` | 2 workers, 1 HTTP thread, 2 jobs, 2 documents, a refused request, a loss of the connection, a signal | a store of one report at a time, in which only what failed is missing; lock discipline, shutdown cuts off no report, every job ends if mongod answers |
| `collector_insert` | 1 worker, 1 HTTP thread | an insert although the document exists (finding) |
| `download` | bodies up to 6 bytes of 2 letters and white space, all cuts | buffer respected; nothing but white space lost of a body that begins with a letter |
| `download_space` | bodies up to 5 bytes that may begin with white space | left-over bytes in the text (finding) |
| `perfdata` | 2 VMs, 2 hosts, legends up to 3 columns, up to 2 rows, times up to 2, 2 types, documents of earlier jobs | records complete and ordered; answers are the report's, rounded, and no others change |
| `perfdata_time` | 1 VM, 1 host, 1 column, 1 row | an answer without times (finding) |
| `converter_error` | 1 VM, 1 host, 2 columns | a report listed in part after an error (finding) |

Why the bounds are enough:

- *queue.* The hand-over of `read_mutex` is decided by `numitems` being 0, 1 or
  more, so lists up to 3 are needed; a surplus unlock needs a producer between its
  two unlocks, one worker that takes the item and one that is woken for nothing;
  two producers make the unlocks of `AddSignal` merge. With four items and two
  workers, items wait while both workers are out on downloads, and one of the two
  may never come back.
- *hashmap, periodical.* 4 entries against 6 slots (load below the 0.70 the code
  allows) with home slots 4, 4, 4 and 5 fill 4, 5, 0, 1: the chain crosses the end
  of the table, and one host is configured twice. Three threads let one be in the
  semaphore, one between `sem_post` and its return, one waiting. In `periodical`
  two threads suffice for the pointers: they share only main's.
- *collector.* Two workers can hold and wait for the lock, and two jobs meet in
  every way: one inserts while the other waits and then updates, both are
  interrupted in the converter, one fails anywhere under the other. One refused
  request, at any place, is enough for a record left out or a second document; the loss
  of the connection adds as many failures as there are requests left. An HTTP
  thread in flight mixes replies up in every position; two keys give reports of
  one and of two records. The proofs cover any number of each.
- *download.* `strip` and `memcpy` depend on where white space lies relative to
  the cuts; six bytes leave room for white space before, between and after
  letters in up to six pieces. Of the bodies that begin with white space the run asks
  that they stay in the buffer: there `strip` moves the text, and `strlen` could go
  beyond what has been received.
- *perfdata.* Three columns allow: a VM twice, a variable twice, two VMs, a host
  between; an error after a good column. Two rows allow ascending, descending and
  equal times, a time of 0, and a metadata row count larger or smaller than the
  rows. The readings include a fraction that rounding makes less than an integer, a negative, one that overflows after
  the multiplication by 100, and NaN; the earlier documents hold a variable that the report may not have.

Deadlock checking is off in all of them: a crashed process, a completed
transfer or conversion, a queue at rest and a collector out of jobs do stop, and
`EveryItemTaken`, `JobEnds`, `ExitHookEnds`, `GetReturns` and `EveryHostPolled`
state what must not.

### Fairness

Fairness is assumed of threads, never of the network: no time limit is set on
a download (server_perf.c:198-209) or on the connection to mongod (mongoc.c:5). What
the network has to do for a property is a hypothesis of the property.

- `Queue`: weak fairness of each producer's Add once it has begun (nothing makes a
  producer begin one) and of each worker's steps up to the item in its hands. None of
  `Free`, the end of a job: `EveryItemTaken` supposes that some worker comes back
  again and again (`SomeWorkerComesBack`); if all 20 hang in a download, TLC shows a
  job that waits for ever. Strong fairness for the two mutexes is
  not needed: the holder always moves on, and the properties ask that *some*
  worker takes the item.
- `Hashmap`: weak fairness of a lookup inside or behind the semaphore.
- `Periodical`: weak fairness of the threads' own steps; `sleep` ends. Strong
  fairness of `Lookup`, which takes the semaphore: it is a POSIX semaphore that is
  posted again and again, and each thread that holds it sleeps 5 seconds or more
  between rounds, so a waiting thread is not overtaken for ever. None for main: a
  login may hang, and then no thread is started.
- `Collector`: weak fairness of what the holder of the interpreter lock does by
  itself, and strong fairness of taking it, in a worker and in `exit_hook`: others
  take and release it meanwhile. None of a download (`Fetched`) or of a reply
  (`Answered`): `JobEnds` begins after the download, and it and `ExitHookEnds`
  suppose that no worker waits for mongod for ever (`MongodAnswers`). A mongod that
  is silent keeps the lock with the worker that waits for it, and thereby stops all
  workers and `exit_hook`.

## 4. Findings

Each is a run that TLC ends with a counterexample, against a statement of the code base itself.

- `queue.c:43` `Add_Queue_Item` unlocks `read_mutex` after `modify_mutex`. A worker
  already awake takes the item in between; the late unlock wakes another one, which
  gets NULL, and `periodical_get_perf` reads `item->action` (`GetFindsItem`).
- `hash.c:190` the position of `__hmap_get` is static and read after `sem_post`: the
  session of another host is returned (`ReturnsYourValue`). `NeverNull` still holds,
  because every position the variable takes while the threads run lies on a chain of
  occupied slots; this is proved.
- `server_perf.c:269` with an HTTP thread on the same connection a worker may take
  the thread's reply for its own and insert a second document (`InsertOnlyIfAbsent`).
  A look-up answered with an error does the same, with no other thread.
- `utils.c:48` `strip` leaves the old tail of the text behind its NUL, and the next
  `memcpy` writes no NUL: pieces `"  a"` and `"a"` arrive as `"aaa"` (`LeadingSpaceRemoved`).
- `converter.py:213` an exception in the legend is swallowed, and the columns before
  it are returned as a whole report (`ErrorReturnsNothing`).

- `query.c:69` `query_perfdata` looks in each sample for a field `time`, which
  query.c:67 promises to the caller and the writer never writes: it writes
  `last_update` and `timestamp` (server_perf.c:318-329). No answer has a time
  (`SampleHasTime`).

What a finding needs is in some cases a theorem (section 5): the property
holds when one circumstance is excluded.

| Property | Holds, for all constants, when | Theorem |
|---|---|---|
| `ReturnsYourValue` | no thread moves the position while another is between `sem_post` and its return | `HashmapReturnsUndisturbed` |
| `InsertOnlyIfAbsent` | no reply has yet been read by the wrong thread, and the job's look-up of the key has not failed | `CollectorSecondDocumentHasCause` |
| `ErrorReturnsNothing` | the legend can be read and names one host; missing rows and bad values do no harm | `ConverterErrorReturnsNothing` |
| `SampleHasTime` | never, for a report that has been stored | `PerfNeverATime` |

These are conditions that are sufficient, and no proposal for a repair. Moving the unlock of
`read_mutex` inside `modify_mutex`, for one, does not make `GetFindsItem` hold: with one
producer and three workers TLC still finds a worker that is woken for nothing, since the
producer may unlock while a worker is awake that has not yet come to the list.

Seen while modelling, and not a run: `MongoConnect` ends with `*result = 0` on every
path (mongoc.c:21), so main's test of it (server.c:461) never holds; the model has
one step for both outcomes. Of two jobs of one host and period that are under way
at once, the older may be written last: `ReportStore` promises no order, and
the code base nowhere does.

## 5. Proofs

Eight modules hold theorems, for all values of the constants under the named
assumptions.

- **`QueueProofs`** (`QueueAssumption`: the two groups of threads are disjoint, and
  NULL is none of the values). `ListConsistent` and `NoLostWakeup` are not inductive:
  the invariant adds who is inside `modify_mutex` (exactly the thread it names),
  that the pointer a producer has stored in `qi->next` is still the list, that a
  producer owns its node from allocation to publication, and that an item is still
  there where a worker has tested that there is one. The decision to hand
  `read_mutex` on is sound because the counter agrees with the list. Refinement: `AddPublish` is `Put`, `GetUnlink` is
  `Take`, `Free` is `Release`, every other step a stutter. Results: `QueueTypeOK`,
  `QueueListConsistent`, `QueueNoLostWakeup`, `QueueImplementsFifo`.
- **`HashmapProofs`** (`HashmapAssumption`: the load stays below 0.70, which
  512 hosts against 2 << 23 slots guarantee). The invariant adds that the entries
  added so far, and no others, are in the table, that whoever is in the loop holds the semaphore, and that
  the shared position lies on the unbroken path from the searched key's home slot
  to its first entry. When a thread has posted, the position may be any other thread's,
  but all of those are on such paths, so it is on an occupied slot. Results:
  `HashmapTypeOK`, `HashmapChainsIntact`, `HashmapNeverNull`, `HashmapStopsAtOwnKey`.
  `HashmapSearchApproaches` is the safety half of termination: the number of slots
  still to pass (`ToGo`) is defined as long as a search runs, since its path leads to an
  entry (`PathHits`), and each step makes it one less (`OneCloser`), around the end of
  the table too (`Around`). `HashmapReturnsUndisturbed` assumes of a behaviour that
  nobody moves the position between a `sem_post` and the return after it.
- **`PeriodicalProofs`** (`PeriodicalAssumption`: at least one host and fewer than
  `MAX_XEN_HOST`; `TableAssumption`: what `Hashmap` assumes). Each step maps to a
  step of `Hashmap` or leaves it unchanged (`TableStep`), so the
  invariant of `HashmapProofs` holds here. With it: main's pointer equals
  the number of sessions stored while it logs in, and is back at 0 before a thread
  exists; the jobs of a round are those of the entries before the thread's pointer.
  Results: also `PeriodicalTypeOK`, `PeriodicalRoundComplete`, `PeriodicalLookupAfterLogin`,
  and `PeriodicalNoThreadCrashes`: the result that `AddJob` dereferences is the one
  `SearchInv` of `HashmapProofs` says is no NULL, for only main could get in its way.
- **`CollectorProofs`** (`CollectorAssumption`: workers, HTTP threads and main
  are different threads). First the lock: exactly one worker
  is between Ensure and Release, or main holds it after `exit_hook`
  (`CollectorTypeOK`, `CollectorLockDiscipline`). A worker that stores is such a
  worker, so at most one stores and none when main has the lock
  (`CollectorExitCutsNoReport`).
  Then, while no reply has been mixed up, *whose* the replies are: the worker's reply
  on the wire is its own (`WireInv`) and tells, unless the look-up failed,
  whether the document of its key exists (`AnswerInv`), which stays true because nobody
  else may write; the records not in `todo` are this job's, except those in `failed`
  (`DocsInv`). Hence `CollectorUniqueDocument`, `CollectorReportStored`, and the
  converse of the finding, `CollectorSecondDocumentHasCause`.
- **`CollectorRefinement`**. The store's writer is the worker that stores, and what is
  due are the records for which no write has been sent. `Converted` is `Start`; a
  write is `Replace` or `PutBeside`, one that is refused or lost `LeaveOut`; a failed
  look-up is `LookupFails`, a reply read by the wrong thread `MixUp`, the failing returns are `Drop`
  and `Release` is `Finish`. That a write replaces, and that a record is left out only when its
  write failed, is what `AnswerInv` and `DocsInv` say.
  Result: `CollectorImplementsStore`.
- **`DownloadProofs`** (`DownloadAssumption`: a body has no NUL byte). For every
  body and every cut: the buffer is `Content-Length + 1` bytes, its string is no
  longer than what has been received, and behind the offset `received` all bytes
  are NUL; hence `DownloadNoOverflow`. What `strip` does to the string's length is
  a lemma per half of it. `DownloadOnlySpaceLost` is about the letters of the text of
  a body that begins with one (`download_space` shows what happens otherwise). The letters of a stretch of memory are a recursive function of
  its length; `TextInv` says that those of the buffer are those of the body so far, and
  that `strip` and `memcpy` keep them is proved by induction on the stretch.
- **`ConverterProofs`** (`ConverterAssumption`). The invariant has a part per
  loop: what `load` has made of the columns read (`LoadInv`, `ColumnsInv`), what `get_vm_list` has
  made of the VMs listed (`ListInv`), and that it ends with all of them (`EndInv`). The loop over the rows
  is a recursive function; that it yields the newest row so far for every report is an induction over the rows.
  Results: `ConverterTypeOK`, `ConverterNewestSoFar`, `ConverterNothingMissing`;
  and `ConverterErrorReturnsNothing` for legends that `__handle_col` can read (`Readable`),
  with the invariant that `host_report` is that of a column handled and an exception has ended the call (`RaiseInv`).
- **`PerfDataProofs`** (`PerfDataAssumption`). Over the invariant of
  `ConverterProofs`: once stored, the document of each VM in the list is made
  from its record (`StoredInv`), the answer is a function of that document
  (`AnswerFromDocument`), and `AsInt` cuts the fraction (`IntegerPart`), which a rounding by less than 1 moves to
  a neighbour at most (`NextInteger`). Results:
  `PerfAnswerIsReport`, `PerfOtherAnswersStay`, and `PerfNeverATime`, the finding
  about `query.c:69` for every report.

The inductions over the natural numbers do not use the library's induction rule, which takes
an operator: `SetInduction` states induction for a *set* of numbers.

The theorem with a circumstance in the order of steps, `HashmapReturnsUndisturbed`, has it as a
conjunct `[][...]_vars` beside `Spec`, so that it speaks of the model's own behaviours
and no second model of a repaired program is needed. The condition has behaviours: among them
all in which the lookups of different threads do not overlap.

Model-checked only: all liveness (`EveryItemTaken`, `GetReturns`, `EveryHostPolled`,
`JobEnds`, `ExitHookEnds`), for the proof system does not treat fairness; and the
findings, which are counterexamples.

## 6. Not modelled

- `cJSON.c`: vendored. `virt.c`, `py_exception.c`, `get_vm`, `get_vm_list`: not
  reached by the server. `test/`: stand-alone experiments.
- The growth branch of `__hmap_add` (unreachable), `mk_hmap2`, integer keys;
  `free_hmap` and `parse_config_free`, which run after threads that never end.
- `config.json` with no host, or with 512 or more: the pointers leave the array.
- `interval` and `daemon` of `config.json`: read and not used.
- Memory that is not freed: the handle and buffer of a failed download, URLs,
  cursors.
- `generic_handler`, which answers 404 to every path but `/api`; the text of the
  JSON answers, of which the model has the fields and their values.
- Sessions that expire and logins that fail: the server keeps them, and what
  the XenServer then answers is a download of some bytes.

## 7. Plan

Done, in this order: `FifoQueue`, `Queue`, `QueueProofs`; `Hashmap`,
`HashmapProofs`; `Collector`, `CollectorProofs`; `Download`, `DownloadProofs`;
`Converter`; `Periodical` over `Hashmap`, `PeriodicalProofs`; `ReportStore` and
`CollectorRefinement`; shutdown in `Collector`; `ConverterProofs`; `PerfData` over `Converter`, `PerfDataProofs`.

What is left:

1. A composition of `Queue` and `ReportStore` (a worker's `Take` is `FifoQueue`'s
   `Take` and the store's `Begin`): which reports a host's documents may show, and in which order.
   With it, that an older report replaces a newer one only if the two jobs overlap
   could be stated.
2. An abstract answer store for `PerfData` (one step: the answers about a report's
   VMs become the report's), refined by it, and its composition with `Collector` in
   place of the one-step `Store`, so that a half-written report has answers.
3. The descents behind `EveryItemTaken` and `JobEnds` as action properties with
   proofs, as `SearchApproaches` is that of `GetReturns`.
4. Logins that fail and sessions that expire, with what `XenLogin` stores then.
5. Replies that two threads read in parts, for which the driver's own code would be needed.
