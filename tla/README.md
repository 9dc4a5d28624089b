# A TLA+ model of thicket-firmware

thicket-firmware runs Reticulum and LXMF on an nRF52840 with an SX1262 radio: the
identity, the message store and the radio interface live on the microcontroller,
next to drivers for a Sharp memory LCD and a TCA8418 keypad and to a renderer for
Micron pages that the device shares with a desktop browser. A suite of scenarios runs
the stack against the reference implementation. This directory holds a
model of the parts of that program where order, failure, limits and time matter, the
TLC configurations that check the model on small instances, and proofs, checked by
TLAPS, of the most important results for every value of the constants.

Paths below are relative to the repository's root. The stacks the firmware builds on
(microReticulum, microLXMF, microStore, micron-cpp, FreeRTOS, RadioLib) are not in
the repository. They are modelled only as far as the code uses them, and are marked
external.

## Running it

    tlc -workers 2 -config X.cfg M     # module and configuration as in PROJECT.json
    tlapm MProofs.tla                  # the eight modules of proofs

`PROJECT.json` lists the runs, the lines each definition translates, the hazards the
properties are for, and for every property a small change of the code that violates
it.

## Inventory

| component | state it keeps | operations | what is hard | module |
|---|---|---|---|---|
| storage, identity and vault (`src/main.cpp` 662-902, `lib/Password`) | the identity file, the attempt counter, the running identity | mount, seal, charge an attempt, open, erase, load | power cuts between two flash operations, failed writes, another image over old state | `IdentityVault` |
| bring-up and work task (`src/main.cpp` 1590-1916, `LoRaInterface::loop`) | the task, its handle, the notification, the radio's flag and mode | the setup steps, the work loop, the interrupt | two tasks and an interrupt, lost wake-ups, exceptions | `BringUp` |
| LoRa framing (`lib/LoRaInterface`) | a sequence counter, one partial packet | send, receive, start, stop | lost and interleaved halves, a 3-bit number that comes round | `LoRaSplit`, `LossyLink` |
| input layer (`lib/Keypad/InputLayer`) | the keys down, the armed modifiers | on_key, reset | more keys than the list, resets under held keys, repeated reports | `InputLayer` |
| keypad scanner (`lib/Keypad/Tca8418`) | the chip's queue and flags, one overflow flag | begin, poll | the chip moves between register accesses, accesses fail, the queue overflows | `Tca8418` |
| panel (`lib/SharpLcd`) | the framebuffer, the dirty lines, the VCOM phase | text, rectangles, rules, dither, fill, flush, toggle, clear | what is on the glass and what the buffer says; cut UTF-8, glyphs no table has | `Drawing`, `SharpLcd`, `Screen` |
| replies (`src/main.cpp` 305-332, 544-640, 1164-1249, 1297-1345, 1677-1786) | the armed reply, its deadline, the send counter | delivery, loop, send | `millis()` wraps, slow loops, exceptions, replaced replies | `AutoReply` |
| page renderer (`lib/MicronRender`) | a pen, a row height, a table buffer, link boxes | one callback per Micron construct | a page laid out anew for every frame must come out the same | `PageRenderer` |
| browser and live fetch (`desktop/`) | the page, scroll, focus, frame, back stack, statics of a fetch | keys, clicks, navigation, a fetch and its callbacks | a frame that is cached, callbacks that come late, silent peers | `Browser` |
| message store (`src/main.cpp` 282-295, 986-1164, `lib/EncryptedStore`) | the message files, the codec, two counters | attach, self-test, save | a full or failing flash, power cuts, damaged files, another identity | `MessageStore` |
| interoperability scenarios (`test_interop/`) | two processes, their sockets, a watchdog | start, announce, link, request, judge | two clocks, lost datagrams, deadlines, a pass that shows nothing | `Bench`, `Interop` and five scenarios |

They meet in few places. The vault gives the identity under which everything else is
addressed and stored. The work task runs the stack, which calls the LoRa interface
and, for a delivered message, the delivery callback; the callback only arms a reply
that the loop sends later. The scanner's events go to the input layer, whose caller
must reset it when the scanner reports a loss. The renderer draws on the panel driver
and is called by the browser for each frame. The message store is keyed by the
vault's identity and filled by the delivery callback and by `send_lxmf`.

## Modules

Each component's module has its state as variables, one action per operation, its
properties at the end and, before a definition, the mutated forms the checks of the
properties use. `MC*` modules only give the constants values. Names follow the source
(`_rx_seq` is `rx_seq`).

**IdentityVault.** Steps 1 and 2 of the bring-up. `PowerOn` chooses an image (a build
and its code), so reflashing is a behaviour; `PowerCut` may come between any two flash
operations and during a write, and keeps the flash only. `vault_open` is several
actions: read and charge the counter, test the code, erase or clear. A mount, a write, a
read of the counter and a removal may each fail, and where the code does not look at the
result it goes on as if it had worked. A key is a number that is never generated twice; a
seal opens under its own code only.

**BringUp.** The loop task in `setup()`, the work task and the interrupt, interleaved
anywhere. The radio's start is three steps as in the code: the hook that wakes the
task, the radio, and Reticulum, whose first announces may already transmit. The radio
latches a frame while it listens and raises DIO1; `startReceive`
and `transmit` drop what is latched. The frame's contents do not matter here.

**LoRaSplit** and **LossyLink.** A packet is one or two frames; every frame may be
lost. `LossyLink` is the promise: packets of a sender arrive whole, in order and at
most once. `ImplementsLink` is the refinement, with what was handed up last as the
mapping.

**InputLayer.** Fingers press and release keys and the scanner reports them, again
too. `_down` never holds a code twice and is searched in full, so it is a set. The
count of refused keys is the event `REFUSED` itself.

**Tca8418.** One action per register access, with the chip queueing events in
between, on a board where every access works and the chip keeps K_INT up, and on one
where neither can be relied on. `happened` numbers the events so that the properties
can say which were handed out; `owed` is a loss the driver has still to report.

**Drawing**, **SharpLcd** and **Screen.** `Drawing` is what a call asks to be drawn: the
decoding of UTF-8, the search of the glyph table, the braille cells made on the fly,
scaled and bold faces, rectangles, rules and dither. `SharpLcd` clips and stores it, with
the framebuffer as pixels, the SPI stream as bytes and the decoder of `VirtualPanel`,
which shares `reverse_bits` with the driver as the code does. `DrawsWhatIsAskedFor`
compares each call with a reference that says for one pixel whether it is asked for.
It draws a box for a character the body face lacks, which is what `draw_text` does. The
loops of `fill_rect` and `draw_hline` count in 16 bits; a call is one whose loops end
(`Returns`). `Screen` is a double-buffered screen: paint, then show; `ImplementsScreen`
is the refinement. The glyphs are a small table of the configuration.

**AutoReply.** The delivery callback, the latched reply, `send_lxmf` and the timed
send, against a clock and a counter that wrap and loops that take their time. An
exception out of the stack ends an iteration before it looks at the reply (`CutShort`),
`MaxSkips` times while a reply is due. Peers, the router and the air are external.

**PageRenderer.** The passes for several scroll offsets run side by side over one
page, so that what a frame must share with the next is a property of one state. Text
is cells; what is drawn is a set of rectangles in page coordinates. A style belongs to
a line; colour, weight and the thin rules change no position and are left out. The
callbacks come in any order a line of Micron can give, and a blank line goes to the
renderer directly, as `compose_page` does it.

**Browser.** A handler and the `recompose` after it are one action. A fetch is a phase
in which the network's callbacks run and time passes in ticks. A target is a node's
hash, or none, and a path. `resolve` looks for it on the disk first, in the directory of
the page it is followed from, by its whole path and then by its last name alone; only
what is not found is fetched. The network is trusted in one thing: it calls nothing back
for a link that is closed.

**MessageStore.** Step 5 of the bring-up, one action per step of its self-test, and
`store_message`. Cryptography is symbolic: a MAC is the record of what it was computed
over, a ciphertext opens under its own key and IV. Power goes between any two steps and
during a write; a write stops short and leaves nothing, a piece, or a piece with a
wrong tail; a stored file is damaged in each of its parts; the cipher or the MAC may be
wrong on this device, which is what the self-test is for; and its removal of the probe
may fail unseen. `LXMF::MessageStore` is external.

**Bench, TwoNode, ColdInbound, LxmfInbound, LinkInbound, PageFetch** and **Interop.**
`Bench` is `driver.sh` with its watchdog, the UDP interface and time, in half seconds;
each scenario's module gives one iteration of its two processes, and `Interop` runs one
scenario at a time. The C++ programs and their Python peers (`test_interop/python`) are
both translated, with every exit of theirs; microReticulum, RNS and LXMF under them are
external. Datagrams are lost, a socket does not open, a process does not get to run for a
while, and a stack fails to do what the scenario is for or gives a message, a receipt or
a link up.

## Runs

Runs marked ✗ state what a comment of the code says and are violated by what the code
does; `PROJECT.json` quotes the line.

| run | what it shows | bounds |
|---|---|---|
| `vault` | `GuessesBounded`: at most ten wrong codes are tested between two openings; `EraseIsFinal`: no later boot runs under a key the limit destroyed; `StoredStaysReadable`: no boot replaces the key messages are stored under; `AddressStable` | the real limit of 10, three identities, four images (two codes, plain, ephemeral); every failure but a counter that is not written or not read |
| `vault_relock` ✗ | `NewVaultNotLockedOut`: the counter outlives the vault it destroyed, and the identity made next is refused at its first boot | the real limit of 10, two identities, two vault images, no failures |
| `bringup` | `LatchedFrameIsFlagged`, `FrameEndsWait`: a frame is not left to the tick; `WaitingMeansListening`; `LatchedFrameIsRead` (liveness) | both builds, every step able to fail, two exceptions. Deadlock is not checked: a failed bring-up stops |
| `split` | `BufferBounded`, `CompleteIsDelivered`: a packet whose parts were all heard is handed up; `ImplementsLink` | ten packets, so that the number comes round, of 0, 254, 255 and 508 bytes, and up to thirteen frames lost in a row (fourteen can bring a number round to a half still held). The sender stops after its packets, hence no deadlock check |
| `keys` | `NoStuckKey`, `GuardSinceReset`: nothing is emitted while three reported keys are down; `EmitsOncePerPress` | two modifiers and four keys, the list of eight shortened to four |
| `scanner` | `OutputFaithful`, `Accounted`: each event once and in order, or accounted for; `LossReported`: a loss is reported, but for an overflow that `begin()` clears; `Drains` (liveness, good board) | a queue of two for ten, a buffer of one, four events, one restart: full, overflowing and left-over queues all occur |
| `panel` | `CleanLinesAgree`: an undirtied line is on the glass; `VcomAgrees`; `DrawsWhatIsAskedFor`: every call sets the pixels its text and shape ask for, and no others, with the box for a missing character among them; `ImplementsScreen` | a panel of 24 by 14, seven calls in four faces with whole and cut UTF-8, at byte boundaries and past the edges, two calls a behaviour (`MaxDraws`; three pass as well, in minutes) |
| `reply` | `NeverEarly`, `NeverLate`: the pause holds across a wrap of the clock, and an exception puts a reply off by the iteration it ends; `GapMeansDrop`: a number the peer misses is a lost message | a clock of twelve values, a counter of three, two messages, a pool of one, one iteration that an exception ends |
| `page` | `InMargins`, `NoOverlap`, `WindowsAgree`: a page has one layout whatever the window, up to the first table wider than the panel; `LinkBoxIsLabel`, `NothingLost` | a panel of eight cells by four rows with the fonts' real sizes, three callbacks a page and any number of pages, two windows, tables of three columns, which do not fit the panel on an indented row |
| `browse` | `FrameIsCurrent`: what is drawn is the page and offset held; `CommittedIsAsked`: the page is the one its address names, be it a file that stands in a node's place, and no late answer is taken for another; `BackReturns`; `FetchEnds` (liveness) | three files in two directories, the pages of two nodes and a dead link, two pages to go back to, two fetches, a timeout of four ticks |
| `store` | `NothingInClear`; `OpensOnlyOwn`: a file opens to the message it was made for, or not at all; `SavedReadsBack`: what was counted as saved opens under its identity only; `AttachedHasRoom`: a boot that attaches the store leaves it room, unless its probe could not be removed | two messages, two identities, room for two files, conversations of one, one damaged file, two saves a boot |
| `interop` | `PassIsEarned`: a PASS shows what the scenario is for, and a run broken by `--self-test-break` gets none, with the three exceptions below; `CalmRunPasses`: no race of starts, announces and deadlines fails a run by itself | six scenarios, with limits of 12, 20 (page-fetch, and cold-inbound, whose receipts run out after 15 s) and 48 s (link-inbound) for the scripts' 40 and 100, which still leave every wait inside a run its time; two failures a run, one in the three long scenarios (`MaxFaults`). A run ends with its verdict, hence no deadlock check |

Each bound is the smallest at which the limits the code has are met and passed: a list
or a queue fills and overflows, a counter wraps, a number is reused, a retry meets the
answer to the try before it.

`PassIsEarned` says no more than the programs ensure. In three cases they give a PASS
that their own words do not cover, and it excuses each where it says what the scenario
earns: an over-cap message that the sender's router gave up without an answer
(`LxmfEarned`), an over-cap page whose request ran out of time (`FetchEarned`), and a link
that died of a process held up although the wire was not cut (`LinkEarned`).

**Fairness.** `bringup`: the two tasks have the same priority and FreeRTOS slices time
between them, so each goes on; a raised interrupt is taken; a blocked task is woken by
its tick. `scanner`: the caller goes on polling and the driver has no waits. `browse`:
the wait loops run every ten milliseconds and time passes; nothing is assumed of the
network. No message or frame is ever assumed to arrive.

## Proofs

All theorems hold for every value of the constants the named assumptions allow.

*IdentityVaultProofs.* `TypeCorrect`, `EraseFinal`, `StoredReadable`, `AddressIsStable`
and `GuessBound`. The inductive invariant `VaultInv` says, besides types, that from the
moment an identity is loaded until power goes the running key is the one on the flash
(`FileInv`); that keys are fresh, so one that is destroyed is never made again
(`FreshInv`); and that the last address and every stored message belong to the key on
the flash or to a destroyed one (`OwnerInv`). None of the safety properties is
inductive without the first: they speak of completed boots, and an interrupted boot
must not leave a key in RAM that the flash does not have. `GuessBound` adds `CountInv`,
by which the counter on the flash is never behind the guesses made; it is where the
order "count, then test" is used, and it assumes that no write and no read of the counter
fails (`CounterKept`). `EraseFinal` adds `EraseInv`: a destroyed key still on the flash is
there for a removal that failed, and no attempt at it gets past the counter. It assumes
that of the removal and the counter at least one can be relied on (`ErasureKept`).

*KeypadProofs.* Of the scanner: `ScannerTypeCorrect`, `LossIsReported`, `EventsAccounted` and
`HandsOverWhatHappened`, for any matrix events, depth up to 15, buffer and board.
`DecodeRaw` is the lemma that `decode` undoes the chip's numbering for all 80 keys and
refuses the rest. `ScanInv` adds that the queue holds what happened in order
(`QueueInv`) and behind what was handed over (`AheadInv`), that the chip never holds
fewer events than `poll` counted and has still to read, also when it overflows
(`CountInv`), and that an overflow `poll` is about to clear is already in `_overflowed`
(`ReadInv`). What `begin()` reads and clears before that is not owed, and the statement
excepts it.

Of the input layer: `LayerTypeCorrect`, `NoKeySticks`, `GuardCountsReported`,
`GuardCountsFingers` and `OneEventPerPress`. `FingersInv`: what is tracked or reported is
physically down. `ListInv`: the list is complete, which needs no more keys held than it
has room for; with it the guard counts what was reported. `OnceInv` ties the events of
a press to its place in the list: a key emitted is tracked, and a tracked key is not
emitted again.

*LoRaSplitProofs.* `SplitTypeCorrect` and `ReassemblyBounded`, for any number of senders.
`SplitInv` holds that an open reassembly has exactly one part (`OnePartWhileOpen`);
with the bound on a part this keeps what is handed up within the interface's MTU.
`CompleteHandedUp` and `SplitImplementsLink` are about one sender in range (`OneSender`)
and at most thirteen frames lost in a row (`ShortBursts`): two senders may use the same
number, and fourteen losses can bring one round to a half still held. `LinkInv` counts
towards that limit. What is on the air is the rest of the packet last sent (`AirInv`); a
half held is its first, or is `d` split packets old and has seen two frames lost for
each of them, but for those still on the air (`HoldInv`); what was read of a packet is
what is held (`HeardInv`); and what was handed up is whole and older than what is on the
air (`HandedInv`). Two halves are joined only if their numbers agree, so that `d` is a
multiple of eight, and with thirteen losses it can only be zero. The refinement follows
step by step: `send_outgoing` is a send of `LossyLink`, reading a frame that completes a
packet is a delivery, and everything else is a stutter.

*WorkTaskProofs.* Of the wake-up: `BringUpTypeCorrect`, `HandleIsLive`, `FrameFlagged`,
`AlwaysListens` and `FrameWakes`. A frame's way to the work task crosses the chip, the interrupt and two
tasks, so none of the properties is inductive alone. `WakeInv` adds what `setup()` has
done by the step it stands at (`SetupInv`), that from the first `startReceive()` on only
a frame being delivered keeps the receiver off (`ListenInv`), and that a frame whose
interrupt has run behind the back of a task past its reading of the flag has left a
notification (`BehindInv`). The statements excuse what the code does not cover: a frame
flagged before the handle was stored (`missed`) and an exception under `on_incoming`
(`unwound`).

Of the replies the task sends: `ReplyNeverLate`, `ReplyNeverEarly`, `NoNumberSkipped` and
`GapIsADrop`. `ClockInv` says that a deadline is the delay less the reply's age ahead of `now`, give or
take one turn of the clock (`DueInv`), and that the loop's last look bounds the age
(`AgeInv`), with one more iteration for each that an exception cut short once it was due. With
`2 * (REPLY_DELAY_MS + (2 + MaxSkips) * MaxLag) < WORD`, which leaves an iteration of the
firmware's loop days, `DueMeansAged` follows: the signed difference of two
times reads as "the delay has passed", and not before. `CountInv` is about the numbers
no peer has been shown and no message lost has carried: each is above all that are
shown, is queued before any higher one, and is in the pool if the counter has passed it.
It holds when a call throws after queueing, when the pool is full and when the counter
wraps, for any correspondents; that a gap on one screen is a loss is its case for one of
them (`OnePeer`), as in the comment the property quotes.

*MessageStoreProofs.* `TypeCorrect`, `NeverInClear`, `OpensItsOwn`, `SavedOpens` and
`AttachesWithRoom`. What a
file gives when it is read is not inductive, since damage can undo damage. `StoreInv`
says what no damage changes: a MAC that is one at all was made for this path's message
by a working codec (`SoundInv`), a file counted as saved is whole (`OwnerInv`), and past
the self-test the codec works and is that of the boot's identity (`BootInv`). `RoomInv`
counts files: a self-test that has written its probe has found a slot, nothing else is
written until the probe is gone, and the slot is then free for a message. A removal that
failed is remembered (`stuck`), and the room is then promised with the probe in it. It
needs no assumption on the number of messages, since only those on the flash are counted.

*BrowserProofs.* `FrameStaysCurrent`, `PageIsTheOneAsked` and `BackGoesBack`, for any
pages, heights and links. `recompose` draws at the offset it is given and again only if
the clamped offset is not the one it drew last, which it does not keep per page, so the
frame could stay that of an offset past the page's end.
`ScreenInv` and `TrailInv` rule it out: an offset held, on the screen or on the back stack,
is within its own page, and the stack is in step with what the reader left. `NetInv` is
why no late answer is taken: a link that may still call back is the current fetch's,
while that fetch waits for it, and what was asked over it is the fetch's target, which
`resolve` did not find on the disk (`AskedInv`). It uses the one thing the network is trusted in, that a closed link calls nothing back.

*SharpLcdProofs.* `LcdTypeCorrect`, `PolarityAgrees`, `CleanLinesOnPanel`,
`LcdImplementsScreen`, `PixelsSet` and `ShapesDrawn`, for any calls and any panel of up to
255 lines, which is what a one-byte line address can name. `LcdInv` is types, `VcomAgrees`
and `CleanLinesAgree`, and the work is in the wire. `ReverseTwice`: the panel reads the
address the driver wrote. `DirtyInOrderFacts`: `flush` visits each dirty line once.
`UpdateFacts` and `WholeTransaction`: the stream has a mode, one block a line and a
trailer, and fits `_tx`. `PanelDecodes`: the panel, which knows only a length and a
stride, takes exactly those blocks out of it again. So a `flush` makes the glass the
framebuffer, which is both the case that makes `CleanLinesAgree` inductive and the step
of `Screen` it refines. `DrawnPixels` reads a byte back bit by bit; with it every call,
of text too, colours its pixels and no others, and `ShapesDrawn` is
`DrawsWhatIsAskedFor` for rectangles, rules and dither, of every position and size for
which the 16-bit loops end (`Returns`).

*InteropProofs.* `PassEarned`, for any scenarios, time limits, switches and number of
failures. The driver sees two exit codes, so the invariant `InteropInv` has to lead from
them back to the wire. `BenchInv`: a PASS means that both sides have exited with 0. Then,
for each scenario, the code is tied to the flags the program ends with, each flag to a
datagram it was handed, and each datagram to what its sender had been handed before.
`TwoNodeInv` and `LxmfInv` use that the payload is the same at every send, and `LxmfInv`
that a sender reports success for a refusal it was told of or for a message its router
gave up; `ColdInv` that a mismatch or a foreign announce, once seen, is kept, and that a
receipt is proved by the packet it is for. `LinkInv` uses that an end which closed by its
timeout had been left by the other or had a silent link (`Hushed`), that not both can
have left first (`Unanswered`), and that the wire is cut once and after the echo. In
`FetchInv` two callbacks serve four requests and trust a global phase: they attribute an
answer rightly because at most one request is open, for the page the phase stands at, and
no later page has been asked for or answered (`AskedInOrder`). Clocks and limits do not
enter; when a run fails is `CalmRunPasses`, below.

*Only model-checked:*

- `LatchedFrameIsRead`, `Drains` and `FetchEnds`, for the prover has no fairness;
- `DrawsWhatIsAskedFor` for text: the code points of a string and the place of each glyph
  come from a walk over its bytes, and a statement about every such walk needs induction
  over data, which is out of reach;
- the five properties of `PageRenderer`, for the same reason: its widths, rows and link
  boxes are folds over the runs of a line and the cells of a table;
- `CalmRunPasses`, which rests on the sums of the waits in the scenarios' programs and the
  limits a run is given, and is false for limits small enough; TLC adds up the ones there
  are;
- the type of the store's index `kept`, which `SelectSeq` computes recursively.

## What the models show that no run states

Where one of these contradicts what a comment says, the property nearest to it is stated
as it is true of the code, and its comment names the case.

- A write of the attempt counter that fails goes unnoticed and makes the boot a free
  guess (`src/main.cpp:787`); a read of it that fails counts as zero and gives ten more
  (`src/main.cpp:782`).
- A removal of the vault that fails is reported as the identity destroyed
  (`src/main.cpp:809`). The sealed key stays on the flash behind a counter that refuses
  every code, and opens again if that counter is ever misread; a plain identity that a
  vault image failed to remove stays readable to a plain image. A removal of the counter
  that fails (`src/main.cpp:818`) leaves a right code counted against the limit.
- An exception under `on_incoming` skips the re-arm, and the receiver stays off until
  something transmits (`LoRaInterface.cpp:344`). `WaitingMeansListening` excuses it.
  That the wake-up hook is set before the radio starts changes nothing, since the
  handle it notifies is stored much later.
- Power lost between the tenth failure and the removal leaves a vault that is locked
  but not deleted; a vault image over a plain identity removes it at the tenth boot,
  with no wrong code ever tested.
- Between `xTaskCreate` and the store of the handle a frame's interrupt notifies
  nobody; the frame waits for the tick. A bring-up step that fails never starts the
  task that would blink.
- `begin()` clears INT_STAT without looking for an overflow in what it clears
  (`Tca8418.cpp:55-58`), so a loss from before it is swallowed, against `Tca8418.h:111`.
- A ninth key held is not tracked, so the guard then counts too few. A reset under a
  held key lets its next report through as a new press.
- A character the body face lacks is drawn as a box (`SharpLcd.cpp:135-149`);
  `SharpLcd.h:70-77` calls the hole silent and `MicronRender.cpp:213-215` says it is blank.
  A rectangle or rule that reaches past 65535 has a counter that wraps before its end, and
  the call does not return (`SharpLcd.cpp:194-199`).
- An exception out of the stack ends the iteration before the reply is looked at
  (`src/main.cpp:1871-1878`); a stack that throws each time keeps every reply back.
- One counter numbers the messages to every correspondent, so each of two sees gaps.
  A peer that writes faster than the pause is not answered. Two stock devices answer
  each other without end.
- Spaces that open a row may push a word past the margin; a dark field after it gets a
  width that wraps to almost 65536 and a fill that does not end
  (`MicronRender.cpp:455`). A checkbox on a full row is drawn over the margin.
- A right-aligned heading is placed by its width in the body face. A blank line after a
  line without text is swallowed. A seventh column is dropped without
  `table_overflowed`, which the next table clears in any case. Six columns can come out
  wider than the panel. A cell past the margin then begins a row
  (`MicronRender.cpp:752`), in the window only, and the page's height depends on the
  scroll offset it is used to clamp. `WindowsAgree` ends at such a table.
- A link that wraps is boxed where its label began; the comment at
  `MicronRender.cpp:400` promises the row it ends on.
- A text's coordinates are cast to 16 bits and would come round at 65536; no caller
  passes such ones.
- The store's self-test calls `encstore_encrypt` and `encstore_decrypt` itself and not
  the codec it attached. It does not look at whether the probe was removed
  (`src/main.cpp:1146`), so a probe left behind can hold the last room of a store reported
  attached. The version byte is under the MAC, but its value is compared with nothing. When messages fill the
  flash the next boot fails its self-test and halts.
- The page-fetch scenario counts a request that times out after 10 s as failed cleanly,
  before its own wait of 14 s (`BIG_WAIT`) ends, so the check for a hang (`main.cpp:25-28`,
  `239-241`) sees only a stack that never ends a request. `lxmf_inbound_sender.py:243-246`
  counts a message that its own router gave up as the refusal, and `lxmf-oversized-reject`
  can pass although nothing reached the C++ side. `link-inbound` broken with `nocut` passes
  if the C++ process is held up for as long as the link's timeout. `lxmf-inbound` prints that no message was delivered also when one came while it
  lingered. `cold-inbound` fails on an announce of anyone else at any time. The windows
  of `link-inbound` add up to 125 s, and its watchdog stops it at 115.
- `live_fetch` cannot report "page request timed out" if tearing a link down calls
  `on_link_closed`, which sets `g_done`. Relative links of a fetched page are tried in
  the file system's root first, since its directory is empty. A target with a hash is
  looked for on the disk by its last name too (`browser.cpp:181-184`): a node's
  `/page/index.mu` followed from beside a local `index.mu` shows the local file under the
  node's address, and the node is never asked.

## Not modelled

The bytes of AES, HMAC, HKDF and the key derivation of `lib/Password` are pure functions
out of a model checker's reach; what is sealed and what opens is modelled. The font
tables are generated, and constants of `Drawing`. `display_bringup.cpp` is a
straight-line test of the driver, and calls `clear()` before it paints. The reports of
the silicon, of memory and of the store print and change nothing. The parser and the
Reticulum stacks are dependencies. Of `test_interop`, `wire_oracle` and the programs that
write and read vectors feed fixed data to the stack and compare what comes out;
`examples_echo`, `pool_soak` and `transport_forwarder` echo, hammer and route with state
that is the stack's alone; the multihop scenario runs the modelled receiver behind a
router of the stack, and the large-message one is `lxmf-inbound` with another payload.
`tools/uihost` draws proposals for screens the device does not have yet. `scripts`, the
board, linker and USB files are host tools and constants.

## Plan

Done, in this order: the vault, whose mistakes lose an identity for good; the wake-up
path, on which reception depends; the framing; the keypad; the panel with what it draws;
the replies; the pages and the browser; the message store; the interoperability bench.
Left:

1. *Keypad composition.* `Tca8418` with `InputLayer` and a caller that resets on a
   reported loss: no key is stuck once the FIFO is drained. The firmware has no such
   caller yet.
2. *Device composition.* `BringUp`'s loop with `LoRaSplit`'s receiver and `AutoReply`'s
   callback: an exception anywhere leaves framing and reply in a state the next
   iteration recovers from.
3. *Proofs.* The layout of `PageRenderer`, once a prover that can do induction over a
   sequence is at hand, and with it the drawing of text. But for those and `CalmRunPasses`, every
   safety property a passing run checks is proved.
