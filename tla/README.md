# netbiff, specified

netbiff shows whether there is new mail. A front end (`netbiff`, with a text or
a GTK interface) starts one back end process for every configured connection
and talks to it over two pipes in the line protocol of the file `PROTO`; two
back ends come with it, one that looks at files (`netbiffd-file`) and one that
asks an IMAP server (`netbiffd-imap`). This directory holds TLA+ models of the
program, configurations that check them with TLC on small instances, and
theorems about them checked with TLAPS. Source positions (`proto.c:115`) refer
to the C files at the top of the repository.

## 1. The system

| component | code | state | operations | talks to |
|---|---|---|---|---|
| protocol engine | `proto.c` | none of its own; drives `connections[]` | a line arrives, output is possible, a poll or a retry is due, a connection is opened | connection, interface, configuration |
| connection | `connection.c`, `connection.h` | protocol state, statuses awaited (`pending_commands`), folders announced and biffed, retry time and penalty, `bin`, `bout`, two descriptors | init, close, do_update, do_reset | actions, interface, buffers |
| actions | `action.c` | a table filled at start-up | add, find, perform | interface (flags, beep), shell |
| text interface | `gui_text.c`, `netbiff.c` | `rfds`, `wfds`, `maxfd`, `next_poll` | the select loop, add_fd, delete_fd | protocol engine |
| GTK interface | `gui_gtk.c` | list of input tags, timers, the main image, the dialog's buffer | callbacks, add_fd, delete_fd, flagup, flagdown, schedule_retry, request_data | protocol engine |
| starting a back end | `xlib.c` (`xpopen2`) | descriptors of the process | two pipes, fork, exec | the kernel |
| line buffer | `buffer.c` | a list of chunks and their total size | put, get_line, get, finish | - |
| file back end | `netbiffd-file.c`, `nbproto.c` | for each folder the size last seen and whether it was read | FOLDER, POLL, QUIT, malformed requests | file system, front end |
| IMAP back end | `netbiffd-imap.c`, `imap.c`, `nbproto.c`, `util.c` | an `ImapContext`, for each folder the count last seen | the same and DATAREQUEST, DATARESPONSE | IMAP server, front end |
| start-up, interface selection | `netbiff.c`, `gui.c`, `home.c` | `gui` | arguments, choice of an interface and of a directory | configuration |
| configuration | `conf.c`, `dir.c`, `action.c` | `actions[]`, `connections[]`, `poll_frequency`, and `errno` | read a directory tree, one file after the other | - |
| child reaping | `child.c` | none that is looked at | collect exit statuses | - |

How they interact. The front end is one thread. Its interface waits for
descriptors and timers and calls `proto_do_io`, `proto_do_poll` and
`proto_do_retries`; these call back into the interface (`gui.add_fd`,
`gui.delete_fd`, `gui.flagup`, `gui.flagdown`, `gui.schedule_retry`,
`gui.request_data`), which shares the `Connection` records with them. The back
ends run at the same time, each a process with a pipe in each direction.

What is hard here, and what makes each part correct:

* *Protocol engine and connection.* Statuses carry no tag: which request one
  belongs to follows only from counting (`pending_commands`) and from the state
  of the connection. Events, data requests and answers come in any order, and a
  connection may be closed at any point with requests and answers under way.
  Correct means: the count is exact, folders are announced one at a time and all
  of them, a poll never overtakes an unanswered one, the flag shows what the
  back end last said, and nothing of one process survives into the next.
* *Text interface.* Closed descriptors keep their numbers in the record, the
  kernel reuses them, and `proto_do_io` goes by number, over the results of a
  select that ran before some handlers closed and others reopened connections.
  Correct means: what is open is watched and served, what is closed is not,
  nothing leaks, the thread never waits for one back end, every connection is
  retried.
* *GTK interface.* Every `add_fd` adds a tag and every `delete_fd` removes the
  first that fits, so that the two need not match; a retry is a timer that runs
  once; the main image belongs to all connections and to the user, who may
  click it away; and the password dialog runs the main loop inside
  `proto_process_line`, so that any other callback may run half-way through it.
  Correct means: open connections have the right tags, whoever waits has a
  timer, the image is up while something is biffed until the user clicks, and
  nothing waits for a dialog but the connection that asked.
* *Start-up.* One pass over many small files, any of which may be missing,
  closed or wrong; tables of fixed size; an `errno` that is read after calls
  that need not have set it. Correct means: netbiff runs with all of a right
  directory or not at all.
* *Buffer.* Lines come out whole, in order and once however the bytes arrived.
* *Back ends.* They answer while the world changes under them; every request
  gets one status, and the events say what happened to the mail.

`PROJECT.json` lists the hazards, each at its line, with the property that would
catch it; those of memory, wording and the operating system are in section 7.

## 2. Modules

```
Connection <- Proto <- BackEnd <- Frontend <- FrontendProof
                          ^           |
                          |           -> Session       (abstract, by INSTANCE)
                     Descriptors
                       ^     ^
                TextLoop     GtkLoop  -> Frontend      (by INSTANCE, both)
                    ^           ^
          TextLoopProof     GtkLoopProof
FileBackEnd  <- FileBackEndProof      -> BackEnd       (by INSTANCE)
ImapBackEnd  <- ImapBackEndProof      -> BackEnd       (by INSTANCE)
Buffer                                -> LineQueue     (abstract, by INSTANCE)
Startup      <- StartupProof                           (by itself)
Descriptors  <- ProtoProof       lemmas about Proto, BackEnd and Descriptors, for
                                 FrontendProof, TextLoopProof and GtkLoopProof
Counting                         lemmas about sequences and finite sets, for
                                 ProtoProof and the other proofs
```

**Connection**, **Proto.** No variables. A connection is a record with the
fields of `struct _connection`, and each C function is an operator of its name
from a record to the record it leaves behind: `connection_close`,
`connection_do_update`, `proto_add_next_folder`, `proto_process_line` and so on.
Two fields stand for what lies behind the calls into the interface: `watch` is
what `add_fd` and `delete_fd` were last asked for, `flag` what `flagup` and
`flagdown` last showed. A line is its tag and its folder; white space,
explanations and data items' text are left out. `wait` is `retry_time - now`.

**BackEnd.** Any program that keeps to `PROTO`: it greets, answers requests in
order with OK or NO, and between answers sends events about folders it knows.
`Faults[c]` adds what may go wrong with connection `c`: `refuse` (pipe or fork
fails), `exit`, `junk` (BAD or gibberish), `stray` (an OK nobody asked for),
`unknown` (events about folders the front end did not announce, `Spoken`).
`asking` lets a back end send one DATAREQUEST between two answers.

**Frontend.** The front end over an interface that does what the file `GUI`
promises, with the back ends. One action per entry into `proto.c`:
`proto_do_retries`, `proto_do_conn_input` with its two outcomes (data, and
`Hangup` at end of file), `ProcessLine` (one turn of the loop over
`buffer_get_line`), `proto_do_conn_output` (and `BrokenPipe`), `proto_do_poll`,
and `Tick`. While lines that were read remain (`Busy`) the thread does nothing
else, and the back ends go on.

**Session.** One connection as the protocol file sees it: its phase, the folders
accepted and the number of statuses owed, with no pipes or buffers. `Frontend`
implements it for every connection (`SessionRefined`), with `owed` the number of
statuses really under way.

**Descriptors.** The kernel's table of descriptors and each record's `fd_in` and
`fd_out`, for both interfaces: `xpopen2` takes the lowest free numbers, four of
them for two pipes, and gives two back, so that of the connections started in
one round the n-th keeps the 2n-th and the next of those that were free. `Shut`
frees them and leaves the record's fields as they are, and a process none of
whose pipes is held any more is on its own.

**TextLoop.** The loop of `gui_text.c` with everything it calls, down to the
numbers of descriptors. `io` holds the tables of `Descriptors` with `rfds`,
`wfds` and `maxfd`; `loop` is the program counter, the loop index of
`proto_do_io`, what select returned and `next_poll`. `Start` is the retry of
`main` before the loop, from which all connections may fail to start. `FD_ISSET`
of -1 is undefined, so the model lets it read as clear or stop the program
(`Abort`). `FrontendRefined` relates the loop to `Frontend`.

**GtkLoop.** The callbacks `gui_gtk.c` gives to GLib. `io` holds the tables of
`Descriptors` and, for each connection and direction, the list of tags, each
with the number its source watches; `timers` the poll timer and, by the time
left, the retry timers; `main` the main image. GLib may pick any source that is
ready. `Input`, `Output`, `gtk_poll_shim`, `gtk_retry_shim` and `image_clicked`
are callbacks, and closing a connection, wherever it happens, schedules a retry
and looks after the image (`Close`). `TakeLine` takes the next line of an input
callback; if it asks for an item that is not in the configuration (`Prompting`)
it opens the dialog and the thread is back in the main loop (`loop.asking`),
where only the source that asked is not entered again, if it is still the same
source (`loop.entered`). `Answered` and `ProcessAnswer` are the way back to the
rest of `proto_process_line`, on whatever became of the connection. Writing to a
process that has gone raises SIGPIPE, which nothing ignores under GTK: `Output`
then ends netbiff (`BrokenPipe`, the state `killed`), after which only the back
ends go on.
`FrontendRefined` relates this loop to the same `Frontend`.

**Startup.** `main` up to the event loop: arguments, `gui_init`, `find_home`,
`conf_read_options`, `conf_read_actions` and `conf_read_connections`, one action
per file, entries of a directory in any order, and `errno` as a variable, which
`gtk_init` and `getpwuid` may set to anything. `slot`
is the record behind the last connection counted, which the next one is put
into whether or not the one before was complete. The tables that come out are
the constants of the other modules.

**LineQueue**, **Buffer.** A queue of bytes from which lines are taken, and the
chunk list that implements it: `compact_buffer_to_lines` is `Compacted`, folds
of `AddChunk` over the chunks and of `AddBytes` over the lines in a chunk. That
`BufferRefined` holds is what lets the other modules keep whole lines in `bin`
and `bout`.

**FileBackEnd.** The process of `netbiffd-file.c`, a file system and a clock.
`update_folder` is `lstat` and the comparison of time stamps, `EventFor` the
decision of `check_folder`; a POLL checks one folder per step, so that files
change in between. `past` and `owed` are history. Front ends send every kind of
request, malformed ones too. `Forbid` makes `lstat` fail.

**ImapBackEnd.** The process of `netbiffd-imap.c` with an IMAP server and a
front end. A whole IMAP command is one step with its outcome: `imap_login` and
`imap_get_recent` are the sets of what these functions may return and leave in
the context, given `ServerFaults`. In particular a login during which the
server goes away counts as a success, and a refused STATUS counts as zero.

Both back ends are shown to be among those `BackEnd` allows (`AsBackEnd`), so
that what is checked and proved of `Frontend` is about front ends with them.
BAD and statuses to unusual requests are outside that comparison, since no
front end of this repository makes such requests.

## 3. What the runs check

Twelve runs, one for each question. States are distinct states.

| run | instance | states | shows |
|---|---|---|---|
| `FrontendSession` | one connection, two folders, all faults but `stray`, all events, also about folders not announced yet | 574,000 | `StatusAccounting`, `FoldersAnnounced`, `SessionRefined`, `NoLostWakeup`, `FlagShowsBiff`, `MirrorsBackEnd` |
| `TextTwo` | two connections, the second exits or sends gibberish and is reopened; fair | 139,000 | `WatchedServed`, `NeverBlocks`, `FrontendRefined`, `Reopened`, `StillPolled` |
| `TextRefuse` | two connections that may both fail to start; the first exits, the second sends strays | 29,000 | `NothingLeaked`, `StopsOnlyUnopened` |
| `GtkMain` | two connections, the first may ask the user at any time, the second exits and is reopened, both send updates; fair | 129,000 | `TagsServe`, `RetryScheduled`, `MainReset`, `MainKept`, `FrontendRefined`, `Reopened` |
| `Startup` | all hosts with three directories; one host with some 15,000 | 307,000 | `CountedComplete`, `AllLoaded`, `WrongRefused`, `RightAccepted` |
| `Buffer` | pieces of up to 3 bytes over 3 letters, 5 bytes, 4 chunks | 22,000 | `SizeIsLength`, `LinesAfterCompaction`, `BufferRefined` |
| `FileMail` | one file, 3 seconds, 2 messages, every request and every change | 303,000 | `StatusPerRequest`, `EventsMatchMail`, `AsBackEnd` |
| `ImapMail` | two mailboxes, with and without a password, logins and connections that fail | 164,000 | `StatusPerRequest`, `OnePassword`, `EventsMatchUnseen`, `AsBackEnd` |
| `TextStale`, `GtkPipe`, `FrontendUnknown`, `ImapRefused` | see section 6 | | violations |

In words, what the properties say:

* `StatusAccounting`: `pending_commands` is the number of statuses still to
  come: unsent, in either pipe, or read and not processed. So no status is ever
  unexpected (`proto.c:119`, `137`) or taken for the answer to another request.
* `FoldersAnnounced`: what counts as added was accepted by the process now
  running, and polls start when all are.
* `SessionRefined`: in every step each connection does what the abstract session
  allows: the next request for a folder only after the last was accepted, a poll
  only when nothing is owed, a closed connection forgets everything.
* `NoLostWakeup`: the interface waits for output exactly while there is some.
* `FlagShowsBiff`, `MirrorsBackEnd`: the flag is up while a folder is biffed, and
  the folders biffed are those of the configuration that the running process
  reported and did not reset, once all it said is processed. `FlagShowsBiff` is
  about a connection with `image` for updates and `image-reset` for resets. In the
  run the back end may speak of its folders before they are announced to it;
  section 6 has one that speaks of a folder nobody configured.
* `WatchedServed`: at every select the sets are right for the connections that
  are open: each is watched under numbers that are its own and below `maxfd`, and
  for output exactly while there is some. It is checked where one connection
  fails. Where two do, a closed one that is served under stale numbers can take
  another's descriptor out of `wfds`, see section 6.
* `NothingLeaked`: no pipe outlives its connection, nor its place in the sets.
* `NeverBlocks`: read is called only where there is something to read.
* `ClosedNotServed`: a closed connection is not served (which does not hold with
  two connections that fail, see section 6).
* `StopsOnlyUnopened`: the two ways the loop stops by itself need a connection
  that was never opened: all of them for a return, one for an abort. This, too,
  is so where at most one connection can be closed.
* `FrontendRefined`: every step of the loop is a step of `Frontend` or none.
* `Reopened`, `StillPolled`: liveness, section 4. `StillPolled` says of a
  connection whose back end is well that again and again a poll is on its way
  to it, and again and again all polls have been answered. `Reopened` of
  `GtkLoop` is about connections that do not ask, whether or not a dialog is
  open, and says that they are opened again or netbiff was killed by a broken
  pipe; that it is killed is `GtkPipe`.
* `TagsServe`: an open connection has exactly one source for its input, on a
  descriptor that is its own, and one for its output while there is some, also
  when leftover tags of an earlier process were about.
* `RetryScheduled`: for each connection in the penalty box a timer runs that
  does not come before the connection is due (a timer that comes early finds
  nothing to do, and there is no second).
* `MainReset`, `MainKept`: the main image is up only while a folder of some
  connection is biffed, and goes down only when none is or by a click. In the run
  folders are unbiffed by closing; the theorems `GtkMainReset` and `GtkMainKept`
  have resets too.
* `CountedComplete`: a connection that counts was read from its own files,
  completely, with defaults for missing files only.
* `AllLoaded`: the loop runs with every action and connection, or not at all.
* `WrongRefused`, `RightAccepted`: what is wrong is refused, and only that; the
  one exception, an unknown action after a missing file, is spelled out.
* `BufferRefined`, `SizeIsLength`, `LinesAfterCompaction`: the buffer is the
  queue; `size` is what `buffer_get` may allocate; the comment at
  `buffer.c:146-147` is true of the list after compaction.
* `StatusPerRequest`: one status for every request, in both back ends.
* `EventsMatchMail`: unread mail that arrived since the last check is announced
  unless something was removed too, a file read after the last delivery is
  reset, and nothing is announced that did not arrive.
* `EventsMatchUnseen`: only arrivals mean UPDATE, only messages seen mean RESET,
  neither means silence, when the server answers STATUS.
* `OnePassword`: a password is on its way only while there is no session, so a
  second login never replaces a good one. This is what the order of DATAREQUEST
  and OK in `netbiffd-imap.c:116-121` is for.
* `AsBackEnd`: as above.

### Bounds

| bound | what it cuts off | why it is enough |
|---|---|---|
| `MaxPenalty` | doubling stops at 1 or 2 | the penalty is only a time to wait; with 2 there are two values, and waits of 2 and 4 ticks that interleave with polls. The overflow after some thirty failures is not covered |
| `MaxLines` | lines in the pipe to the front end | with 2, an event can come before and after a status, and lines can wait in the pipe while others are in `bin` |
| `FewRequests` | requests after strays (a constraint of `TextRefuse`) | a stray makes the count too low and the next poll early; two requests at once show the effect |
| `MaxFd` | descriptors 3 to 8 | two open connections hold four, a third start needs four for a moment; there are always enough (assumed) |
| `PollFreq` | ticks between polls | 2 lets the timer expire before, between and after retries; 1 in the runs about starting and failing |
| `MaxTags` | tags for writing a connection may have when it reads on | one left over besides the one in use; they are ready too, and GLib serves them |
| `MaxLate` | retry timers due when time passes | none: GLib runs what is due before it waits again; other callbacks may still come before a timer that is due |
| `Prompting` | who may ask | the first connection; the second goes on meanwhile, and fails |
| `SmallLimits`, `MAX_ACTIONS`, `MAX_CONNECTIONS` | sizes of tables | each, but that of resets, is exceeded by one in some directory and met exactly in another |
| `MaxPiece`, `MaxBytes`, `FewChunks` | bytes | a line over two and three chunks, several lines in a chunk, a newline at either end of a chunk, empty chunks |
| `MaxTime`, `MaxSize` | seconds and messages | three seconds: before, in and after a delivery; two messages: grow, shrink, and both between two polls |
| `MaxWaiting` | requests and lines in a back end's pipes | processes wait when a pipe is full; `FileMail` has one of each in the pipe and one being served |
| `MaxUnseen` | unseen messages | 2: up, down, and both ending at any difference |

The front end's actions do not depend on the number of connections except where
descriptors, timers and the image are shared; `TextLoop` and `GtkLoop` therefore
have two, and the theorems of section 5 hold for any number.

`MCFrontend`, `MCTextLoop`, `MCGtkLoop`, `MCStartup`, `MCBuffer`, `MCFileBackEnd`
and `MCImapBackEnd` hold the instances' values. Deadlock is checked except in
`TextRefuse`, where the loop may return or the program be stopped; in `GtkMain`
and `GtkPipe`, since a broken pipe may stop the program; and in `Startup`, which
ends where the loop begins.

## 4. Fairness

`TextLoop!FairSpec` is used for `Reopened` and `StillPolled`.

* Weak fairness of `LoopStep`: the loop is one thread without locks. When
  select has something to return, or the timeout is over, it returns, and no
  handler waits (`NeverBlocks` is checked, not assumed).
* Strong fairness of `Tick`: time passes. In the model it does so where the
  thread waits in select; that the fairness is strong says that it cannot go
  through its loop for ever within a second. `StillPolled` needs it: the poll
  timer has to expire although the other back end always has something to say.
* Strong fairness of each back end's `Greet` and `Answer`, taken together. This
  is not the front end's doing: `PROTO:37-41` asks it of back ends. It is strong
  because a full pipe, or a process that died, interrupts it. Nothing is assumed
  of events or faults: a back end may exit every time right after it is started.

`StillPolled` is stated for the connection whose back end does not fail. A back
end that never answers is neither closed nor polled again; the code has no
timeout, so nothing could be shown without the third assumption.

`RetriedForever`, which `GtkPipe` finds violated, is checked under
`GtkLoop!FairSpec`, so that netbiff does not simply stop.

`GtkLoop!FairSpec` is used for its `Reopened`.

* Weak fairness of the rest of a callback that has begun, strong fairness of
  each source and of the retry timers: GLib dispatches in every iteration all
  sources that are ready, in turn. It is strong since a line in progress, or
  another callback, takes a source's turn for a moment.
* Strong fairness of `Tick`, and of `Greet` and `Answer`, as above.
* Sources and back ends only of connections outside `Prompting`. Nothing is
  assumed of the user: a dialog may stay open for ever.

`Startup` has no loop, and no fairness.

## 5. What is proved

By TLAPS, for every value of the constants: each property that the runs
`FrontendSession`, `TextRefuse`, `FileMail`, `ImapMail` and `Startup` check, and
each that `TextTwo` and `GtkMain` check but liveness.
For two of the properties that the runs of section 6 violate, those of
`TextStale` and `ImapRefused`, there is a theorem that says when they do hold.
The parts are tied together: `FileAsBackEnd` and `ImapAsBackEnd` say that
the two back ends are among those `BackEnd` allows, `TextImplementsFrontend` and
`GtkImplementsFrontend` that the two interfaces are the one `Frontend` describes,
so that what is proved of `Frontend` with any back end holds of netbiff with
these, under the assumptions that the table gives with each.

| theorem | module | property | assumes |
|---|---|---|---|
| `TypeCorrect` | `FrontendProof` | `TypeOK` | - |
| `StatusesAccounted` | `FrontendProof` | `StatusAccounting` | no `stray` |
| `WakeupsKept` | `FrontendProof` | `NoLostWakeup` | - |
| `FlagsRight` | `FrontendProof` | `FlagShowsBiff` | `ImagesConfigured`, `OnlyToldFolders` |
| `FrontendImplementsSession` | `FrontendProof` | `SessionRefined` | no `stray` |
| `FoldersAnnouncedFirst` | `FrontendProof` | `FoldersAnnounced` | no `stray` |
| `BackEndMirrored` | `FrontendProof` | `MirrorsBackEnd` | - |
| `FileTypeOK` | `FileBackEndProof` | `TypeOK` | - |
| `FileStatusPerRequest` | `FileBackEndProof` | `StatusPerRequest` | - |
| `FileEventsMatchMail` | `FileBackEndProof` | `EventsMatchMail` | `UseAtime` |
| `FileAsBackEnd` | `FileBackEndProof` | `AsBackEnd` | - |
| `ImapTypeOK` | `ImapBackEndProof` | `TypeOK` | - |
| `ImapStatusPerRequest` | `ImapBackEndProof` | `StatusPerRequest` | - |
| `ImapOnePassword` | `ImapBackEndProof` | `OnePassword` | no password in `Extras` |
| `ImapEventsMatchUnseen` | `ImapBackEndProof` | `EventsMatchUnseen` | `Answering`, `AskedOnce` |
| `ImapResetMeansDecrease` | `ImapBackEndProof` | `ResetMeansDecrease` | `Answering`, `AskedOnce` |
| `ImapAsBackEnd` | `ImapBackEndProof` | `AsBackEnd` | - |
| `GtkTypeOK` | `GtkLoopProof` | `TypeOK` | - |
| `GtkRetryScheduled` | `GtkLoopProof` | `RetryScheduled` | - |
| `GtkTagsServe` | `GtkLoopProof` | `TagsServe` | - |
| `GtkMainReset` | `GtkLoopProof` | `MainReset` | `ImagesConfigured`, `OnlyToldFolders` |
| `GtkMainKept` | `GtkLoopProof` | `MainKept` | - |
| `GtkImplementsFrontend` | `GtkLoopProof` | `FrontendRefined` | - |
| `GtkResponsesRequested` | `GtkLoopProof` | `ResponsesRequested` | - |
| `TextTypeOK` | `TextLoopProof` | `TypeOK` | a connection |
| `TextNothingLeaked` | `TextLoopProof` | `NothingLeaked` | a connection, `OneCloses` |
| `TextStopsOnlyUnopened` | `TextLoopProof` | `StopsOnlyUnopened` | a connection, `OneCloses` |
| `TextWatchedServed` | `TextLoopProof` | `WatchedServed` | a connection, `OneFails` |
| `TextNeverBlocks` | `TextLoopProof` | `NeverBlocks` | a connection, `OneFails` |
| `TextClosedNotServed` | `TextLoopProof` | `ClosedNotServed` | a connection, `OneFails` |
| `TextImplementsFrontend` | `TextLoopProof` | `FrontendRefined` | a connection, `OneFails` |
| `StartupTypeOK` | `StartupProof` | `TypeOK` | - |
| `StartupCountedComplete` | `StartupProof` | `CountedComplete` | - |
| `StartupAllLoaded` | `StartupProof` | `AllLoaded` | - |
| `StartupWrongRefused` | `StartupProof` | `WrongRefused` | - |
| `StartupRightAccepted` | `StartupProof` | `RightAccepted` | - |

No `stray`: no back end sends a status nobody asked for. The assumption is
needed, since such a status is indistinguishable from an answer: the front end
then polls early, and takes a folder for accepted that was not.
`ImagesConfigured`: performing a connection's updates leaves its flag up,
performing its resets leaves it down, since `FlagShowsBiff` is about such
connections; the instance has `<<"beep", "image">>` and `<<"image-reset">>`, which
are also the defaults of `conf.c`. `OnlyToldFolders`: no back end has the fault
`unknown`, speaking of folders it was not told of. An update of an unknown folder puts the flag up while nothing is
biffed, see `FrontendUnknown`. All other theorems hold with such back ends.

A connection: `Conns # {}`; with none the first select fails and netbiff ends.
`OneCloses`: at most one back end can do what makes the text interface close its
connection: exit, send BAD or gibberish, or answer NO. `OneFails`: the same with
starts that fail. Any number of other connections goes on beside that one, which
may be closed and opened again for ever, and strays may come from all. Both are
needed: `TextStale` shows what two connections that fail do to each other, and a
start that fails moves the numbers of those that are started after it.

`UseAtime`: the file back end was not built or started to ignore access times;
without them it cannot know that a message was read. No password in `Extras`: a
front end sends a password only when it is asked for one, as netbiff does
(`proto.c:82`). `Answering`: the server may refuse a login and go away, but what
it answers to STATUS is true; `ImapRefused` shows what happens where it is not.
`AskedOnce`: no front end asks for a folder twice, as `proto_add_next_folder`
never does.

*Types.* `TypeOK` alone is not inductive: the index `Folders[c][added + 1]` has to
be in range when a FOLDER request is built. The invariant `TypeInv` adds `Shape`:
`added` is 0 until the greeting, below the number of folders while folders are
being added, and equal to it afterwards.

*Statuses.* The inductive invariant is `TypeInv` with `AccountInv`, which adds to
`StatusAccounting` that behind a closed connection no process talks, and that
nothing is counted before the folders are announced. It is stated over four
values (record, process, two pipes) as `Balanced`, so that each operation is
looked at by itself. The lemma `LineEffect` sums up the case analysis of
`proto_process_line` in five outcomes: the line closes the connection, moves it
on while one status is owed, settles a status, makes the front end send a data
item, or changes nothing a session depends on. `OpenBalanced`, `PollBalanced`,
`InputBalanced`, `OutputBalanced`, `LineBalanced`, `SayBalanced` and
`CloseBalanced` show that each operation keeps the balance; `StatusAtAppend`,
`StatusAtSplit` and `StatusAtTail` how the number of statuses in a sequence
changes when lines are added or taken off.

*Wakeups and flags.* What a step does to one record is one of eight things
(`RecordStep`: opens, polls, waits, reads, shuts, writes, processes a line, or
nothing), and `RecordSteps` shows that every step of `Next` is that for every
connection. `ProtoProof` has the part of this that does not depend on the
interface, `HandlerStep`. `NoLostWakeup` is then inductive by itself, record by record.
`FlagShowsBiff` needs to know that only configured folders are ever spoken of
(`OursInv`), and that `connection_do_reset` looks through all of them: the first
match among the folders exists because a set of indices has a least element, which comes from
the well-foundedness of `<` (`LeastElement`, from `WFMin`).

*Session.* Where the counting is right the record alone tells how much is owed
(`Due`), so that the mapping of `SessionRefined`, which counts statuses in pipes,
can be replaced by one over records. `SessionMove` then shows that each of the
eight steps is a step of `Session` or leaves its variables alone.

*Folders.* The invariant `Ahead` says that the folders counted are known to the
process, and, while one more is announced, that nothing but that request is
under way and no OK comes back before the process has taken the folder. Its
proof uses `StatusAccounting`: there is only one status an OK could be.

*Events.* For each folder, the last event under way decides: `Told` says that
without one the front end agrees with the process, and that otherwise the last
one says what the process has in `news`. `ToldAppend` and its companions for
taking lines off and for processing one keep it; with all pipes empty it is
`MirrorsBackEnd`. Events about folders
that are not configured biff nothing, so nothing is said of these.

*Counting.* The number of positions of a sequence whose element is in a given
set (`Places`), and how it changes with `Append`, `Tail` and a new first element.
All statements about statuses come down to it.

*Back ends: statuses.* `StatusInv` is inductive: the types; the positions that
are still to be checked are positions of folders (`InRange`; needed to read
`folders[Head(serving.left)]`, and true although a folder put in front of the
list moves all others, since outside a poll nothing is left to check, `Resting`);
and the count. Each handler takes one request off and either sends one status or
becomes busy with it; `netbiffd-file` sends none where `Dropped` says so.

*Back ends: events.* What is announced is the difference between two counts, so
the invariant relates the count that is remembered to what happened since
(`Moved`): nothing came, so the present count is not above it, and so on. For the
history of a mailbox to be that of its folder no two folders may have one name,
and so a folder that is about to be added may not be known (`MailInv`,
`CountInv`). `netbiffd-file` also decides by time stamps; `Stamped` says what they
tell: unread mail means a last change not before the last access, and the
reverse. In both back ends a poll that stops half-way keeps what was remembered
of the remaining folders, and the proofs are by one lemma per action.

*Back ends: passwords.* `PromptInv` is inductive: while a DATAREQUEST is under way
the front end has made no request and, since a status follows it, will make none
before it has answered; it is asked only once; and nothing logs in meanwhile.
The order of DATAREQUEST and OK is used in `Followed`.

*Back ends: refinement.* The requests a back end still has to answer are the one
being served and those in the pipe (`Waiting`); `RequestInv` and `PollInv` say
that the one being served is not a FOLDER request, which `BackEnd` takes and
answers in a single step. Each handler is then one action of `BackEnd`, or none.

*GTK: types and descriptors.* `TypeInv` is inductive. To the types it adds what the
types rest on: who has sources, is served or is asked for was started once, so
that its numbers are numbers (`Addressed`); a descriptor that is not free belongs
to an open connection and is the one in its record (`Owned`); and while lines are
processed there is one (`LoopInv`). From `Owned` follows that at most two
descriptors are taken for each open connection, hence that there are enough for
all that are started in one round (`EnoughFree`); that those taken are different
is a fact about ranks in a finite set of numbers (`RankExists` in `Counting`, by
the least rank that nobody has).

*GTK: retries.* For a connection that waits a timer runs whose delay is at least
`conn[c].wait` (`Timer`), and time takes one off both. By `TimerCases` an action
closes a connection and sets a timer, lets timers go off or time pass, or leaves
timers and waits alone (`Unmoved`).

*GTK: sources.* `ServeInv` says for each connection that a closed one has no source
for reading, and nothing buffered, and an open one has its pipes, one source for
reading and one for writing if it needs it, with any number of stale ones
(`Serves`); and lines are buffered only for the connection whose callback runs or
is interrupted by a dialog, which stays open until the answer (`Dialogs`). Closing
one connection leaves the others' pipes and sources as they
are, which is where it is needed that their numbers are different.

*GTK: the main image.* `MainKept` follows action by action: the image goes down in
`image_clicked`, in a reset and in a closing, and the last two look at what is
biffed in every connection (`gtk_flagdown`). `MainReset` also needs that the
image goes up and down when it should: `ImagesConfigured` has every update put it
up and every reset take it down, `FlagRight` says for each connection that its
flag is up exactly while something of it is biffed, as in `FlagShowsBiff` (whose
lemmas `ProtoProof` holds for both), and `MainCases` and `LineMain` follow the
image through the updates and resets of one line.

*GTK: pipes.* `PipeInv` adds to `ServeInv` what the comparison with `Frontend`
needs: nobody is at the other end of a closed connection (`Vacant`); neither the
pipe nor what was read of it is longer than a pipe may be, where a question whose
dialog is open counts as read (`Bounded`); and the user answers what was asked
for, on a connection that is still in its normal state (`Answering`).

*GTK: refinement.* A callback that read several lines processes them one by one,
with dialogs in between, while `Frontend` reads and processes nothing else in
the meantime. The mapping therefore leaves the lines that wait in the pipe
(`Pipes`): only the line being processed is in `bin`, and taking the next one up
(`FrontTake`, `TakenUp`) is what `Frontend` calls reading. A dialog that is open
keeps its line unread in the same way, and so other callbacks that run meanwhile
are steps of `Frontend` between two readings. By `ServeInv` the sources say of a
connection just what its record needs (`View`). There is one lemma `Front...` for
each action.

*GTK: data items.* Until a process greets, nothing it could take for an answer is
under way, waits to be processed, or is being asked for (`AskedInv`, with
`Unasking` lines and `Unasked` requests); so no answer of the user reaches a
process that did not ask (`PROTO:28`, `ResponsesRequested`). What a connection that is started again
finds is empty because closing leaves it so, and no dialog is open for it since
the connection for which one is open stays open (`Dialogs`).

*Text: types and descriptors.* As in the GTK interface, `TypeInv` has `Addressed`
and `Owned`, whose lemmas `ProtoProof` holds for both. Here the numbers of a
closed connection stay with its record and may belong to another; `Owned` is
about those that are open only, so it holds with any number of failures.

*Text: what is open.* `KeptInv` is about the connection that may be closed and the
others. The others never are, once they are open, and hence say nothing that
would close them (`Tame`); an open connection has its pipes, and a closed one
nothing to write (`Keeps`); the sets hold only what is open, below `maxfd`
(`SetsInv`); and what select found is still open, or was closed by the connection
that fails in its turn, after which nothing is started before the next select
(`Found`). `StopsOnlyUnopened` is part of it, since whether select fails, and
whether FD_ISSET is given -1, depends on the rest.

*Text: what is watched.* `WatchInv` adds: an open connection is in the sets
(`Looked`); the numbers of a closed one are nobody's, so that serving it does
nothing, and they go back to it when it is started (`Abandoned`); the others are
open from the first retry on (`Started`); lines wait only in the connection being
served (`Drained`); and what select found at a connection is still there when its
turn comes (`Ready`). `WatchedServed`, `NeverBlocks` and `ClosedNotServed` follow.

*Text: refinement.* A step of the loop that serves a connection is the step of
`Frontend` for it, by one lemma `Front...` for each action; scanning on, select
and the polls not yet due are none. By `Looked` the sets say of a connection just
what its record needs (`Whole`), so that records can be compared with records.

*Start-up.* One invariant for all five theorems, `IInv`, by the program counter:
what was read of the actions, and of the connections, is what the directory had
but for the entries still to come, or there was an error (`ActionsInv`,
`ProgressInv`); the record being filled belongs to none of those counted, nor to
one still to come, and the lists read so far are right (`SlotInv`); each
connection counted is complete (`CountedInv`); and `errno` is `ENOENT` only if a
file is missing or an error was counted (`ErrnoInv`). The order of entries in a
directory is any, which is where the cardinalities come from: tables are
compared with sets of names of the same size. Assumed is that the limits hold
the defaults of `conf.c`, and directories are finite.

Only model-checked: liveness and fairness (`Reopened`, `StillPolled`), which are
out of reach of the prover; and the four properties of `Buffer`, which rest on
what its folds compute for every list, and that takes induction over data.

## 6. Where the code and what is said of it differ

Four runs are expected to find a violation.

* `TextStale`: `ClosedNotServed` (`GUI:38-40`) with two back ends that both
  exit. `connection_close` leaves `fd_in` and `fd_out` in the record
  (`connection.c:35`), the next process started gets the numbers, and
  `proto_do_io` serves them in the name of the closed connection, which swallows
  the other's greeting. Served once more, when a process hangs up, such a
  connection closes the other's descriptors; that one is still watched, select
  fails with EBADF (`gui_text.c:85`) and netbiff ends, though `NEWS:38-39` says
  that connections "will be retried forever". With only one connection that
  fails nothing of this happens (`TextClosedNotServed`,
  `TextImplementsFrontend`), since the numbers go back to the same connection.
* `GtkPipe`: `RetriedForever` (`NEWS:38-39`) with two back ends that both exit. Only
  `text_init` ignores SIGPIPE (`gui_text.c:33`). Under GTK a request written to a
  back end that has exited, before its end of file was read, ends netbiff
  (`proto.c:190`); a connection that waits in the penalty box is then never
  opened again.
* `FrontendUnknown`: `ResetCancels` (`PROTO:63-66`). `connection_do_update` performs
  its actions also for a folder it does not find (`connection.c:64-72`), and
  `connection_do_reset` performs none then (`connection.c:94`): the flag goes up
  and no RESET of that folder takes it down.
* `ImapRefused`: `ResetMeansDecrease` (`README.IMAP:39-40`). A STATUS command
  that the server refuses counts as no unseen mail (`imap.c:355`), so a RESET is
  sent though nothing was seen. With a server that answers STATUS it is not
  (`ImapResetMeansDecrease`).

Noted while modelling, without a run:

* When the first start of every back end fails, `maxfd` is -1 (`gui_text.c:32`),
  select fails and the loop returns (`gui_text.c:83-93`), though `NEWS:38-39` says
  that connections "will be retried forever". `StopsOnlyUnopened` says that
  this, and descriptor -1, are the only ways for the loop to stop while at most
  one connection can be closed; with two there is the one of `TextStale`.
* `proto_init_conn` returns when `xpopen2` fails (`proto.c:14-15`) and schedules
  nothing. Under GTK only closing a connection does (`gui_gtk.c:441-450`), so that
  one that could not be started waits until another happens to fail, or for
  ever, though `NEWS:38-39` says that connections "will be retried forever".
  `RetryScheduled` and `Reopened` leave such connections out.
* The tables of connections and actions have a fixed size (`connection.h:11`)
  nobody checks (`conf.c:158`, `action.c:18`), though `PROTO:2-3` promises "an
  arbitrary number of back ends". In `Startup` filling one beyond its end is the
  end `overrun`, which none of its properties constrains.
* A server that answers OK without a STATUS line leaves the count of the mailbox
  asked about before in `c->recent`, which all share (`imap.c:358`), and a
  difference between two mailboxes is announced as new mail, though
  `README.IMAP:37-38` has an UPDATE mean that the number increased. In
  `ImapBackEnd` this is the server fault `silent`, which `Answering` excludes.
* Ignoring SIGPIPE under GTK as well would not be enough: a failed write would
  then close the connection for which a dialog is open, and the answer would be
  put into the buffer of a connection that is closed or belongs to a new process
  (`gui_gtk.c:411`, `proto.c:82-91`). As it is, nothing closes that connection
  (`GtkResponsesRequested`): its source is not entered again, and the write is
  netbiff's end.
* `netbiffd-file` has no case for DATARESPONSE and drops it without a status
  (`PROTO:37-38`); it never asks for data.
* `conf.c` reads `errno` after a line of a list was refused, which sets none. If
  an earlier file was missing, the unknown action counts as a missing list, and
  the defaults are added to the actions before it (`conf.c:170-177`), where
  `CONFIG:30-38` has the default stand for a missing file. `WrongRefused` says
  when that can happen.
* Tags for writing that are left over (`gui_gtk.c:344`) keep their callbacks
  coming although `GUI:38-40` has delete_fd remove the connection for that event;
  each finds nothing to write and removes one more tag.
* A file that shrank causes a RESET (`netbiffd-file.c:44`) also when it was
  written more recently than read, where `README.FILE:5-10` says "do nothing".
* Folder names in a POLL are compared without regard to case
  (`netbiffd-file.c:105`), which `PROTO:25` does not say.
* `netbiffd-imap` sends a RESET when the count goes down but is not zero, though
  `PROTO:64-65` has RESET mean that the folder "no longer contains new
  information".

## 7. Not modelled

* *Child reaping* (`child.c`): the handler collects statuses nobody looks at.
* *TLS, sockets, name resolution* (`util.c`, parts of `imap.c`): input and
  output whose outcomes are choices in `ImapBackEnd`; so are the lines of the
  IMAP dialogue.
* *GTK's widgets*: the status window, the message window, layout, and closing
  the main window, which ends the program. The text of an item is abstracted, so
  a dialog that is closed (an empty item) is an answer like any other.
* *GLib.* Assumed: a source is not dispatched again within its own callback,
  sources that are ready are all dispatched in turn, and a timer that returns
  false is removed.
* *Details of the configuration:* the value of the frequency (0 or a word polls
  without pause), lines longer than the buffer of `fgets`, paths longer than
  `PATH_MAX`, the commands themselves. A file that cannot be read after it was
  opened is modelled; a list then ends there. Messages are assumed to leave
  `errno` alone.
* *Shell commands* of actions: they leave no state. That a failed fork replaces
  netbiff by the command (`xlib.c:98`) is left out.
* *Memory:* allocation always succeeds; the leak at `buffer.c:152-160` and the
  use after free at `netbiffd-file.c:129-133` are not visible.
* *Uninitialised `resp[1]`* (`proto.c:51`) of a line with one word: lines in the
  models have their arguments, and the tag `BAD` stands also for gibberish.
* *Wording*, messages and layout (a failed write formats a function pointer,
  `proto.c:193`; an unknown interface a struct, `gui.c:19`).
* *Processes after their connection was closed:* a child inherits the pipes of
  the other connections (`xlib.c:77-84`), so an old back end may live on without
  an end of file. It cannot reach the front end, and `BackEnd` forgets it.
* *Back ends that behave oddly for ever:* one that greets and then refuses a
  folder is restarted every two seconds, as the penalty is reset at the greeting
  (`proto.c:107`); one that goes on asking for data keeps `pending_commands` above
  zero and is never polled (`proto.c:91`). Neither is against any document; the
  models bound the second by one question per answer.
* *The time a password prompt takes* in the text interface (`gui_text.c:146-171`),
  during which nothing else is served.

## 8. Plan

Done, in this order: Connection and Proto, BackEnd, Frontend with Session;
TextLoop and its refinement; Buffer; the two back ends; GtkLoop and Startup; the
theorems about Frontend, then about the back ends and Startup, then about the
invariants of GtkLoop and of TextLoop, and that both loops implement Frontend.

What is left stays with TLC: `Buffer`, whose lists are taken apart by folds, and
liveness. What section 7 lists would be next to model; first the password prompt
of the text interface and the descriptors a child inherits, which both make one
connection's back end matter to the others.
