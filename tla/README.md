# A TLA+ development of ASR Flash

ASR Flash (Go, package `main`) flashes ASR/Quectel modems over USB: it opens the
device through usbdevfs, speaks the SMUX framing with the boot programs of the
modem, and runs the commands of a firmware package on it, from the command line,
from a watch that waits for devices, or from a web server. These modules model
its core, TLC checks them on small instances, and TLAPS proves the safety
properties of eight of them for every value of their constants.

Source references are to files of the repository; `main.go:842` is line 842.

## 1. The system

| Component | State | Operations | Interacts through |
|---|---|---|---|
| SMUX framing (`smux.go`) | a parser: state, frame type, buffer | build a frame, process a byte | the receive loop feeds it, `SmuxHandshake` replaces it |
| Session, commands (`session.go`, `smux.go`) | `fd`, `closed`, `cmdResponse`, `abortReason` | `SmuxHandshake`, `SmuxSendCmd`, `SmuxDownload`, `Close`, the receive loop | one response slot polled every 10 ms under `s.mu` |
| Session, data (`session.go`) | `expectData`, `expectSize`, `dataBuffer` | `BeginDataExpect`, `ReceiveData`, `appendData` | receive loop and reader share the buffer |
| Executor (`main.go` `executeFlashCommands`) | group and command at work | require, call, partition, erase, upload, flash | session; checkpoint file |
| flash-watch (`main.go` `flashWatchMode`) | `lastCompletedGroup`, checkpoint file | scan, attempt, retry, USB reset, restart | executor; file under `/tmp` |
| Sparse images (`sparse.go`, `flashSegmented`) | `files`, `maxDownloadSize` | convert, segment, download, flash | executor |
| Read-back (`main.go`, `upload_read.go`) | as Session, data | `upload:`, `flash:read:` | session |
| Web server (`web.go`) | `currentSession`, `flashMu` | flash, read, status, cancel, others | goroutines share sessions and descriptors |
| Web socket hub (`web.go`) | `wsClients`, `wsMu` | connect, broadcast | every log line of a flash |
| Crane firmware (`firmware.go`) | command list | parse, download | session, from `runFlash` |
| Raw REPL upload (`upload.go`) | serial port, temporary files | enter, upload a file, exit | `/api/upload`, `/api/verify-lcd` |
| AT commands (`web.go` `handleAT`) | `atMu` | one line, one answer | the port the uploads use |
| USB devices (`usbdev.go`) | sysfs, descriptors | find, open, claim, bulk transfer, reset, AT switch | everything above |
| Batch, remote, script (`advanced.go`) | progress map, queue | start, progress | `/api/batch` and others |
| Chip configurations (`chipconfig.go`, `chips/`) | map of YAML files | load, list | `/api/chips` |

What is hard in it: the receive loop runs beside the operation that waits for
it and nothing ties an answer to its command; waits end by deadlines of their
own, so what was given up may still be answered; bulk reads that time out lose
bytes; the watch is killed and restarted, and picks up a checkpoint on a device
in another state; web requests check and set `currentSession` at different
times and close sessions under each other; sizes are compared at one time and
used at another; every line that is logged is written to every web socket under
one lock, without a deadline; jobs on the serial port share the port and the
names of their temporary files. `PROJECT.json` lists each hazard at its line.

What makes the components correct:

* framing: what is built is what is parsed; a parser out of step makes up nothing;
* command channel: a call returns, with the answer to itself; data goes out only
  when the device takes it;
* data buffer: what is saved is the partition, whole;
* executor and watch: groups in order, none left out, checkpoint never ahead;
* images: segments tile the image, fit the limit, go to their place;
* web server: one flash at a time, descriptors of different sessions apart,
  nothing left behind;
* Crane flash: a file cut short is never read as another one, completed means
  that the device took every download, and who watches is told, as long as no
  browser stalls for ever;
* serial jobs: what a job read is on the device when it says so, the device is
  left as it was found, and a job ends, as long as nothing holds it up for ever.

## 2. The modules

| Module | Models | Extends / instantiates |
|---|---|---|
| `SmuxCodec` | escape, frame, parser | |
| `FrameLink` | what the link promises in whole messages (abstract) | |
| `SmuxLink` | wire in bytes, receive loop, handshake | `SmuxCodec`; refines `FrameLink` |
| `SmuxLinkMC`, `SmuxLinkProofs` | instance for TLC; proofs | `SmuxLink` |
| `CommandChannel` | what callers of a session may count on (abstract) | |
| `SmuxSession` | session, receive loop and device with whole frames | refines `CommandChannel` |
| `SmuxSessionProofs` | proofs | `SmuxSession` |
| `ReadBack` | data buffer and its three readers | |
| `ReadBackProofs` | proofs | `ReadBack` |
| `GroupOrder` | what flashing a package promises (abstract) | |
| `FlashJob` | flash-watch and executor | refines `GroupOrder` |
| `FlashJobMC`, `FlashJobProofs` | instance for TLC; proofs | `FlashJob` |
| `SparseImage` | sparse images by their chunks | |
| `ImageWrite` | what flashing an image promises (abstract) | |
| `SegmentedFlash` | conversion, segmenting, flashing of one image | `SparseImage`; refines `ImageWrite` |
| `SegmentedFlashMC`, `SegmentedFlashProofs` | instance for TLC; proofs | `SegmentedFlash` |
| `WebControl` | requests of the web server, sessions, descriptors | |
| `WebControlProofs` | proofs | `WebControl` |
| `CraneFirmware` | firmware files, whole or cut, and `ParseCraneFirmware` | |
| `WebFlash` | one flash of the web server: `runFlash`, the receive loop, the hub and its watchers | `CraneFirmware` |
| `WebFlashMC`, `WebFlashProofs` | instance for TLC; proofs | `WebFlash` |
| `SerialJobs` | upload, LCD verification and AT commands on the serial port | |
| `SerialJobsMC`, `SerialJobsProofs` | instance for TLC; proofs | `SerialJobs` |

The layers abstract each other: `SmuxSession` takes frames as whole, which is what
`SmuxLink` amounts to on a link that loses nothing (`FrameLink`); `FlashJob` and `SegmentedFlash`
take an exchange as answered, refused or not answered, which are the outcomes
`SmuxSession` lets it have; `WebControl` takes a use of the device as a system
call on a descriptor, and a whole flash as one such use; `WebFlash` opens that
use up again, with the slot of `SmuxSession` looked at in one step.

Each variable is explained at the head of its module, by the Go state it stands
for. Actions have the names of the functions, or of the steps of them, they
model. Operators whose names end in `_Something` are changed versions of the
operator they precede, each a bug the code might have had; no specification
uses them, and with one of them in place of the original one of the properties
fails.

**SmuxCodec, SmuxLink.** Bytes are 0..255 with the real codes. A frame on the
wire is a type, a payload and the position up to which it is spelled, so that
payloads need no bound; `WireSpellsBuildFrame` says that this is the string
`smuxBuildFrame` returns. `RxByte` is one turn of the inner loop of
`startRxLoop`; `ReadTimeout` loses a byte as `BulkRead` does; `ResetParser`
falls between any two bytes because the loop reads `s.parser` without `s.mu`.
A mutex section is one step. `ImplementsFrameLink` maps the wire to the messages
its frames stand for, and the parser to whether it is in tune: inside a frame
exactly when the device is. Most bytes are stutters; the byte that closes a frame
is `Hear` or `Miss`, `ResetParser` is `Replace`, and a byte that is lost may change
the tune (`Lose`), after which only the order of what is still heard is promised.

**SmuxSession.** One caller, as all of the code has, with the operations as a
sequence of single accesses to the slot: clear, write, poll, the deadline looked
at after the lock is released, the slot read under a second lock. Frames carry,
as history, the number of the call they answer. The device (external) works on
one request after the other, may refuse, may be slow beyond the deadline, and
may warn. The history variable `trusted` is set by a handshake that got its own
two answers and lost by an operation that is given up: while it holds no late
answer is under way. `aborts` counts the operations an abort reason has failed.

**ReadBack.** The three readers differ in when they call `BeginDataExpect`:
before the command (`uploadReadMode`), after DATA (packages), after DATA or
after OKAY and a diagnosis (`read-partition`). A byte of a partition is named by
its read and position. `upload-read` first sends `useflash` and `ulstage`;
`staged` is the range the device has taken, `unstaged` the reads whose
`ulstage` it refused. The history variable `hasty` is set when the reader goes
on before everything the device has to say has come.

**FlashJob.** The device (external) runs boot ROM, preboot or flasher, and may
go away; what is plugged in next may be another one, which nothing in the code
notices. The commands of the group at work are a set of their numbers, done from
the lowest (`at`). An exchange succeeds, is refused, or gets no answer; `why` keeps of the
error what `flashWatchMode` looks at. `os.WriteFile` is two steps. The history
variables `written` and `through` record what this device has carried out and
which groups were gone through; `swapped` that another device has taken the place
of one on which the job was begun. `through` is counted since the checkpoint was
last removed: `RemoveFails` is the `os.Remove` of `clearCheckpoint` that fails
unseen, after which the next process takes up the old checkpoint, skips every
group and reports success. "Gone through" is what the code counts as
completed, whether or not a command of the group failed. `left` are the commands
that failed with a warning. A restart may come with other flags (`options`).

**SparseImage, SegmentedFlash.** Lengths are the real ones, in bytes; contents
are left out. An image is a record of what is skipped, written and left at the
end. The 32-bit arithmetic of `sparse.go` does not overflow for images below
4 GB. `ImplementsImageWrite` maps the segment at work to the blocks written so far
and the extents to the places on the partition; an image that was cut up after its
conversion (`split`) is `mangled` there, and nothing is promised of it.

**WebControl.** A request is a goroutine. `Fetch` is `FD()`, the call after it
is the system call; the kernel hands out the lowest free descriptor and drops a
claim when the descriptor is closed. The memory order of the unlocked
assignments to `currentSession` is taken as sequential. `runFlash` and
`handleCancel` broadcast; `stalled` (external) says that some browser does not
read, and a step that has something to broadcast is not taken then, be it under
`flashMu` or not. `handleRead` broadcasts nothing while it has the device.

**CraneFirmware, WebFlash.** A firmware file is a sequence of pieces (a command,
its answer, data, a blank line), copied up to any piece or into it; which file
it is is chosen when it is opened. A piece is known by its place in the whole
file, and the reader goes from place to place, a turn of its loop an action
(`ParseBlank`, `ParseCommand`), by the kind of line it finds there; it never
looks at how the file is laid out. `AnswerFirst` chooses between the layout the
parser expects, an answer line between a download command and its data
(`firmware.go:76`), and the one `README.md:59-75` documents, the data at once. A
line that is read where data are goes on to the next line end, and what is read
as data elsewhere is some other piece. The receive loop and `runFlash` log through
`broadcast`: `say` is what each has yet to say, and each waits until the hub has
written it to every socket, under `wsMu`. The watchers (external) connect, stop
reading and go away; a write to one that does not read blocks. The device
(external) may be in the middle of a download of an earlier flash, with its
answers still under way (up to `MaxLeft`, each OKAY, DATA or FAIL), and may
refuse or say nothing. To the download command `SmuxDownload` sends again it may
say anything, DATA, OKAY or FAIL, or nothing (`twice` is set when it does not
take it). `Hello` takes UABT and HELLO as one exchange; a HELLO_REPLY left over
from an earlier flash is not modelled here but in `SmuxSession`.

**SerialJobs.** The port is not opened exclusively, so what one job writes and
reads is shared by all that have it open. A temporary file is a name and an
inode: `os.Create` truncates the one another handler is using, `os.Remove` takes
the name away from a job that has yet to open it. Contents are digits with the
job they come from. Nobody looks whether a temporary file could be created
(`CreateFails`), nor whether what was sent was read and written to its end
(`Save`: any beginning of it may be there, as the length of what was saved is
all that is told apart; `torn` has the uploads this happened to), nor whether ^B
could be written (`lost`). A read of the port ends when nothing was said for a
time, and a write when the port has taken it in: `outside` (external) is what
holds up a job, a port that talks on, a port that takes nothing in, or a browser
that does not read, one at a time, and each step waits for what it needs
(`FallsSilent`, `TakesIn`, `Broadcasts`). The device's files are followed for a job that has the port
to itself; of jobs that overlap nothing is claimed but that they end and leave
the raw REPL.

## 3. The runs

Passing runs (distinct states, each in less than two minutes with two workers):

| Run | Shows | Bounds | States |
|---|---|---|---|
| `SmuxLinkMC` | refines `FrameLink`; types, no frame made up, no frame missed, wire = `smuxBuildFrame`; a link that loses nothing gets through its handshakes again and again | 4 kinds of frames with delimiters, escapes and type codes in the payload, one longer than the buffer of 4, one empty, one a stray answer; 2 unsolicited frames, 2 on the wire, 1 byte lost; the session may open inside a frame | 40,398 |
| `SmuxSessionMC` | refines `CommandChannel`, its fairness too: operations return; after a handshake with its own answers, answers are trusted and data goes out only when asked; a warning fails one operation at most | 4 operations, 2 chunks, a deadline in each, 2 warnings, 1 failed write, a close at any time; nothing is asked of the device | 681,526 |
| `WebControlMC` | `DescriptorsApart`, `OneFlash`, `NothingLeft`; `AllServed`: every request is served, unless from some time on a browser stalls for ever | 2 flashes, 1 read, 1 cancel; a browser stalls and reads on at any time | 640,788 |
| `FlashJobMC` | refines `GroupOrder`; `CheckpointBehind`; `CheckpointAccounts`; attempts end | a package of 4 groups, with keys that sort differently as text; 2 runs with any of 3 sets of flags (`--retry`, `--timeout`, an image missing), 2 faults, 1 unplug, after which the same device or another one is plugged in | 462,575 |
| `SegmentedFlashMC` | refines `ImageWrite`: done means every block written; chunks add up (in `TypeOK`), downloads fit, data in place | 12 lengths around block, segment and limit boundaries up to 4.2 MB; limits of 1 MB and 1.75 MB; 2 attempts | 17,534 |
| `ReadBackMC` | what is saved is the partition, where the receive loop may panic, reads end | 3 readers, 3 reads of 3 bytes in frames of 2, DATA or OKAY as the answer, refusals, 2 waits given up | 177,487 |
| `WebFlashMC` | a cut file is read as a beginning of the whole one; `CompletedMeansTaken`; `ErrorHasCause`; unless a watcher stalls for ever the flash ends (`FlashEnds`), and who watches and stays is told how (`WatcherTold`) | a nop and a download, 2 watchers, 1 of them stops reading once, for a time or for ever, an answer left over from an earlier flash and a device that still awaits its data | 314,032 |
| `SerialJobsMC` | a job that ran alone and completed is on the device; the raw REPL is left; `JobsEnd`: a job ends, unless from some time on something always holds it up | 2 jobs of any of 3 kinds, one an upload at most, with a name that is the script's or is not; files of 3 in chunks of 2, saved whole, in part or not at all; all hindrances, coming and going without a bound | 763,356 |

The bounds are enough for the cases to happen: two frames on the wire let a
parser be replaced in one and meet the next; one lost byte is any byte; two
operations in sequence let a late answer meet the next command, and four let it
survive a handshake; two warnings let one be dropped while the other is set, and
one come late; two flashes, a read and a cancel are one more than any two
that can collide; the package has a group before, at and after the checkpoint,
and a crash, a failure and an unplugging fit into one behaviour; the lengths
stand on both sides of every comparison in the code; two reads let the data of
the first meet the second, and its size, lower than what is buffered, is the
panic of `appendData`, and a third lets the OKAY that ends the first displace
the answers of both; a nop may be given up and its late answer meet the
download, which is the one command with two more exchanges; with two
watchers a write that fails can be followed by one that does not; two jobs
overlap in every way, and a file of 3 in chunks of 2 ends with a short chunk.
`SerialJobsMC` (the module) takes two jobs in one order only, as they differ in
their names alone. Two uploads at a time are left to the proofs: on the port
they do what an upload and a verification do, and with the script's name an
upload shares its temporary file with a verification. One stall is enough in
`WebFlashMC`, as it may come at any time and end or not. A status request does
nothing a cancel does not do first, so none is in `WebControlMC`.

Runs that end in a violation, each of a sentence the repository says about
itself (quoted in `PROJECT.json`):

| Run | What happens |
|---|---|
| `SmuxLinkLost` | one delimiter is lost; the parser is inside between frames from then on, UABT is never seen, and the parser, which is replaced after UABT only, is never replaced |
| `WebControlCancel` | the cancel waits for `flashMu`, which the flash holds |
| `FlashJobFlasher` | the groups that load the flasher are skipped after an interruption, and flash commands go to the boot ROM |
| `SerialJobsTmp` | the handler returns and its deferred `os.Remove` takes the file before the upload has read it |

The models have further behaviours that a reader of the code may not expect.
The properties above are stated around them, and no run is spent on them:

* a checkpoint that could not be removed after a success (`RemoveFails`): the
  next process skips every group and reports success;
* a temporary file that was saved in part, or not at all while another is there
  under its name, is uploaded and reported completed (`torn` in
  `CompletedIsOnDevice`);
* a ^B that could not be written leaves the device in the raw REPL (`lost` in
  `ReplIsLeft`);
* a port that talks on, or that takes nothing in, keeps a job for ever, and an AT
  command with it `atMu`, for which all other AT commands wait (`JobsEnd`);
* the size of the file on the device is read back "to verify" it
  (`upload.go:180`) and only printed: a device that did not write the file gets a
  job that completes (`failed` in `CompletedIsOnDevice`);
* a firmware file laid out as `README.md:59-75` documents it, the data at once
  behind the download command, is not read: the parser takes the beginning of the
  data for the answer line it expects there (`firmware.go:76`) and reads on out of
  place. All that is claimed of firmware files is claimed of those with that line
  (`AnswerFirst`); with `AnswerFirst = FALSE` and the example of the README
  (`Firmware <- MCDocumented`) TLC finds a counterexample to `ReadIsPrefix`;
* a download that was given up is answered late, and its DATA starts the data of
  the next one before the device takes it (`DataOnlyWhenAsked` speaks of a
  trusted session);
* a flash command fails with a warning, and its group becomes the checkpoint all
  the same, although `main.go:30` speaks of the last group completed with
  success (`CheckpointAccounts` says what does hold: written, or warned about);
* a device that takes the place of another one in the middle of a job is flashed
  from the checkpoint of the other (`swapped` in `CheckpointAccounts`);
* a warning that no wait looked at aborts the next, healthy command
  (`PollAborted`; `WarningFailsOnce` says that it is one only);
* two requests pass the check of `currentSession`, and a flash and a read, or two
  reads, both have the device open (`OneFlash` speaks of flashes only);
* `FD()`, a close by a cancel, an open by another request, and the system call
  lands on the descriptor of the other (`Fetch`, `CancelClose`, `Open`,
  `CallSucceeds`);
* after a call that was refused the watch tries again without a USB reset, and
  after a success with `--retry` it flashes a device that is still there again;
* an image just below the limit exceeds it once converted, and the sparse image
  is cut into segments (the history variable `split`, by which `InPlace` and
  `ImageWritten` leave it aside); an image larger than the limit known at parse
  time but not than the one of the flasher is sent bare, although
  `main.go:1036-1037` says that the flasher requires sparse images
  (`sparse.go:228-230` leaves it raw all the same), and counts as written;
* data that comes before a reader of the packages expects it is dropped; OKAY may
  replace DATA<size> before the reader looks; the second `BeginDataExpect` of
  `read-partition` throws away what the first collected. The OKAY that ends a
  read-back is awaited by `read-partition` only; in the other two readers it may
  be taken for the answer to the next command, so that they run one answer ahead
  and `upload-read` saves the data of the wrong read, or the receive loop panics
  (`InStep` in the properties of `ReadBack`). A refused `ulstage` is not looked
  at, and what is saved is whatever range was set before (`unstaged`);
* a Crane command that is refused, a download excepted, is a warning and the
  flash completes; a firmware file that was cut after a whole command, even after
  its header, is flashed as if it were whole;
* a browser that stops reading stops the flash, which holds `wsMu` while it
  writes, and `flashMu` too, and with the flash every request that looks at
  `currentSession` (`stalled` in `AllServed`, `FlashEnds`, `WatcherTold`), and no
  other browser is told anything, although `README.md:11` and `:172` promise logs
  and progress in real time;
* two uploads of the same name truncate each other's temporary file, read it
  empty or the other's, and report completed; an upload named like the LCD script
  removes that script from `/tmp`; two jobs on the serial port interrupt each
  other's raw REPL, and as the results of commands are discarded both report
  completed (`alone` and the names in `CompletedIsOnDevice`).

**Fairness.** The caller, the receive loop and the goroutines of requests are
scheduled (weak fairness of their steps). `SmuxLinkMC`: the device answers what
it is asked, and a wait gives up only when no answer is under way
(`PromptDevice`); a failed handshake is tried again, as `rehandshake` and the
watch do. `SmuxSessionMC`: nothing is asked of the device; a wait looks at its
deadline infinitely often and time passes, hence strong fairness of `Deadline`,
and `MaxTimeouts` is the number of operations, so that the bound never keeps a
wait from ending. `WebControlMC`: as long as some goroutine can go on again and
again, one does; every call to the device has a timeout (`usbdev.go`), and
nothing is assumed about who gets `flashMu`. `FlashJobMC`: only the steps of an
attempt are fair; every exchange has a deadline (`waitForResponse`) and ends in
one of its outcomes. `ReadBackMC`: reader, device and receive loop. `WebFlashMC`:
`runFlash`, the receive loop, the hub and the handlers of the sockets run;
nothing is asked of the device. `SerialJobsMC`: as long as a job that was
started, or its handler, can go on again and again, one does; requests need not
come.

Nothing is assumed about browsers and ports: `WriteMessage` (`web.go:696`) and the
writes of the serial port have no deadline, and a read of the port renews its own
as long as bytes come (`web.go:525`, `upload.go:56`). `AllServed`, `FlashEnds`,
`WatcherTold` and `JobsEnd` therefore name the one way out, a browser or port that
holds the program up *for ever*, and claim the rest. In `WebControlMC` and
`SerialJobsMC` browsers and ports may go on and off without end; the fairness is
strong there because what a browser or port makes possible again goes to the one
writer or reader that waits for it: a socket write that waits is in the kernel,
under `wsMu`, which keeps all others out, and returns when there is room, however
short. In `WebFlashMC` stalls are bounded, and weak fairness is enough.

**Deadlock** is checked in all runs but those of `SerialJobs`: each model has a
last action for the state in which the program has ended. The server of
`SerialJobs` may wait for requests for ever, which is no deadlock. No run uses
symmetry.

## 4. The proofs

`tlapm` checks all of `SmuxLinkProofs`, `SmuxSessionProofs`, `ReadBackProofs`,
`FlashJobProofs`, `SegmentedFlashProofs`, `WebControlProofs`, `WebFlashProofs`
and `SerialJobsProofs`. They assume the ASSUMEs of the modules and nothing else:
types of the constants, a positive buffer size, frame and chunk length, limits of
1 MB or more, finite sets of jobs and requests, and that the names the models
give to "nobody" and "nothing" are not those of a job or a file. The theorems of
`WebFlashProofs` have one premise besides, `AnswerFirst`: the files are laid out
as the parser expects. Each module states its inductive invariant first; TLC was
asked about each of them before it was proved. A property is seldom inductive; what each
needs besides itself is this.

* **`SmuxLinkProofs`**: `LinkTypeCorrect`, `LinkNeverForges`, `LinkNeverLoses`,
  `LinkIsFrameLink` and `WireIsBuildFrame`, for every set of frames and every
  buffer size. `NoForgedFrame` speaks of the last byte only. The invariant relates
  parser and wire at every byte: either they are in phase (the parser holds the
  part of the payload that was sent, cut at the buffer) or out of phase (it waits
  while the device spells, and is inside with an empty buffer between two frames).
  A new parser is in one of the two wherever the device stands; only a parser in
  phase completes a frame; `clean` keeps it in phase. While no byte is lost, in
  phase is in tune, so the same invariant carries every step of the bytes to a
  step of `FrameLink` or none. `smuxEscape` of a payload is the bytes of all its
  escapes, one after the other: where each begins is a sum of lengths, and that
  these sums exist, and that a payload without its first byte has the same ones
  less the first, is shown by an induction over a set of naturals.
* **`SmuxSessionProofs`**: `SessionTypeCorrect`, `AnswersStayTrusted`,
  `DataOnlyOnDemand`, `WarningsFailOnce`, and `SessionIsChannel`: every step of
  `SmuxSession` is one of `CommandChannel` or none, with any number of operations,
  chunks and faults.
  `AnswersStayTrusted` and `DataOnlyOnDemand` speak of a session while it is
  `trusted`, that is since a handshake that got its own answers and as long as no
  operation is given up; of the rest there are counterexamples (section 3).
  Nothing in the code ties an answer to its command, so the invariant follows the
  queues: everything is read in order, and when the answer to the UABT of a
  handshake is in the slot nothing older is left (`OrderInv`); from there each
  exchange starts from a quiet channel and ends with the answer to it
  (`TunedInv`). A warning is counted where it is: on its way, set, or reported
  (`WarningInv`); one that is dropped is counted no more.
* **`ReadBackProofs`**: `ReadTypeCorrect`, `FilesHoldPartitions`, `SliceInRange`,
  `UploadReadDropsNone`, for partitions and frames of every length and any number
  of waits given up. The frames under way continue, one after the other, what is
  in the buffer, up to where the device has come (`Flow`, `Streaming`). That holds
  while reader and device are in step, because then nothing is under way but the
  answer to the last command (`SyncInv`); `upload-read` expects data before it
  sends the command and needs an empty buffer and a staged range besides
  (`StagedInv`).
* **`FlashJobProofs`**: `JobTypeCorrect`, `JobInOrder` (`FlashJob` implements
  `GroupOrder`), `CheckpointNeverAhead` and `CheckpointAlwaysAccounts`, for every
  package. A group leaves `todo` only by being gone through or skipped
  (`TodoInv`); what the file or `skip` covers was gone through (`SkipInv`),
  because the checkpoint is written after the group; and each command of a group
  gone through since the checkpoint was last removed was carried out, in this run
  or an earlier one, or is among those left with a warning (`BooksInv`), unless another device has taken the place of
  the one that carried it out. That `FirstOf` picks a smallest key rests on
  the well-foundedness of `<` on the naturals.
* **`SegmentedFlashProofs`**: `FlashTypeCorrect` (the consistency of every
  sparse image, `ChunksAddUp`, is part of it), `DownloadsAlwaysFit`, `AlwaysInPlace`,
  `ImageAlwaysWritten` (what the last step of `ImageWrite` says, as an invariant)
  and `FlashIsImageWrite` (`SegmentedFlash` implements `ImageWrite`), for every length
  and every limit. The last three leave aside an image that was cut up after its
  conversion: its blocks are where the sparse file has them, which is not where
  the image has them. `OnlyLongSparseIsSplit` bounds what is left aside: only an
  image that is sparse when it is flashed and longer than 255 blocks can be. The segment at work is one of the image, the download about to
  be ordered is that segment's image, and every block before the segment is
  written; the last segment ends where the image ends. An image that is sent whole
  is at its first block (`FromStart`). The lemmas bound
  `BlocksOf` and the size of a sparse image (100 bytes above its blocks; 255
  blocks and that fit into 1 MB).
* **`WebControlProofs`**: `WebTypeCorrect`, `DescriptorsStayApart`,
  `FlashesExclude`, `NothingStays`, for any sets of requests. A session and its
  descriptor point at each other from the open to the first close, and nothing
  else points at either (`TableInv`); a later close, by the request or a cancel,
  finds the session closed, whatever the kernel has done with the number. A flash
  holds `flashMu` from before the open until after the close (`LockInv`); a read
  does not, and `FlashesExclude` says nothing of a flash and a read or of two reads. That
  the kernel has a free descriptor to hand out is a matter of counting: there is
  one per request, and each has one open at most.
* **`WebFlashProofs`**: `WebFlashTypeCorrect`, `ReadsBeginning`,
  `CompletedIsTaken`, `ErrorsHaveCauses`, for every firmware, any watchers and any
  number of leftovers. The reader stands before the next command or
  behind a download (`ReaderInv`), so that nothing it reads is anything else. The
  handshake waits for its own answer and by then has read what was left over
  (`HelloInv`); from there on nothing is under way but the answer to the request
  at work and the device has taken up the commands one by one (`InStep`), until a
  nop is given up. Then answers may be late by any number of nops, but none of
  them is DATA and all of them are read before DATA is (`OutOfStep`), so a
  download, its repeated command and its data are in step again (`DownloadInv`).
  Where the device does not take the repeated command, `twice` or `trouble` is
  set and the flash ends in an error.
  That the hub touches nothing of this is a lemma of its own.
* **`SerialJobsProofs`**: `SerialTypeCorrect`, `ReplAlwaysLeft`,
  `CompletedAlwaysOnDevice`, for any number of jobs, any names and every length
  of files and chunks. A job that was alone on the port has it for itself until
  it closes it (`AloneInv`), and the commands it has yet to run complete the file
  (`FileInv`): the chunks tile the data (`ChunksFacts`), so what m of them wrote
  is the data up to the m-th boundary. An inode is known by one name only
  (`NameInv`), so no other upload touches the temporary file of a job that does
  not share its name (`OwnInv`). Who is told of the raw REPL leaves it; who is
  not was failed by the device or had company (`BannerInv`, `ReplInv`), unless its
  ^B was lost. What it read is what was sent if it was saved whole (`torn`), which
  is not something the code makes sure of.

Only model-checked: all liveness, and the fairness that is part of
`ImplementsChannel`. TLAPS does not reason about fairness here. Every invariant of
a passing run, and the safety part of every refinement, is proved.

## 5. What is not modelled

* Contents of images, check sums, the text of commands and log lines.
* An image of no bytes (`rawToSparseAtOffset` refuses it) and a download of no
  bytes.
* `SmuxSendData`, `SmuxWaitResponse` and `SmuxRecvData`: nothing calls them.
  (`SmuxRecvData`, `session.go:263`, takes a mutex that `waitForResponse` holds
  and would block for ever.)
* `uploadMode` and `verifyLCDMode` of the command line, which run the modelled
  operations of `UploadSession` one after the other; `exec`, which nothing calls.
* In `uploadReadMode`, the loading of preboot and flasher and the new session
  after a re-enumeration: planned, see below.
* What an AT answer says, and `findATPort`.
* `BatchFlash` (its `flashDevice` is a stub), `RemoteFlash`, `ScriptRunner`
  (external commands), chip configurations, the CLI, the page: I/O
  with little state.
* `flashAppOnly`, `flashQuecPython`, `flashLogicrom`: sequences of the modelled
  operations.
* The search for devices in sysfs and the AT switch to download mode: a device
  is found or not.

## 6. Plan

Done, in this order: framing and link; session; web control; watch and executor;
sparse images; read-back; Crane firmware with the hub; the jobs on the serial
port; the proofs above.

Next, models:

1. `UsbDevices`: the reading of the sysfs entries and the AT switch, with the
   devices as `FlashJob` has them now.
2. `uploadReadMode` as an executor of its own: text order of the groups
   (`upload_read.go:211`), new session after a re-enumeration.
3. `BatchFlash`, once it flashes something.

Next, proofs: an abstract upload that a job of `SerialJobs` with the port to
itself implements; and, should the prover come to reason about fairness, that
operations, attempts, reads and flashes end.
