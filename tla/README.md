# Formal model of the Remote Ocean Acidification Monitor

TLA+ modules, TLC configurations and TLAPS proofs for the programs of
`RemoteOceanAcidificationMonitor`: the class `loraPoint2Point`
(`src/loraPoint2PointProtocol.{h,cpp}`), the timer it uses (`src/simpleTimer.h`),
the Arduino sketches built on them (`src/Examples/`), and the scripts of the
documentation site that is kept with them (`src/docs/html/`). Line numbers below are
those of the sources; `cpp:` and `h:` stand for `loraPoint2PointProtocol.cpp` and
`.h`, `base:` for `LoRaRangeTest_Base.ino`, `search:` for `search/search.js` and
`dyn:` for `dynsections.js`.

## 1. The system

Two Adafruit Feathers with an RFM95 LoRa modem talk to each other. One is the
*base* (address `0xBB`: three buttons, OLED display, SD card, a terminal on USB),
the other the *endpoint* (`0xEE`, near the sensors). Each runs one Arduino
`loop()`; nothing preempts it except the radio driver's interrupt. There are two
pairs of programs:

* the **range test** (`LoRaRangeTest_*`), in which both ends run the
  `loraPoint2Point` protocol and the base's user changes spreading factor,
  bandwidth, channel and power of both ends over the air;
* the **sensor bridge** (`simpleSensorCommsEchoRadio_*`), which carries lines of
  text between a terminal at the base and two sensors (SeapHOx and ProCV) at the
  endpoint, without acknowledgements.

Beside them lies the **documentation site** of the class. Its pages and scripts
were written by Doxygen 1.9.1 and are kept in the repository as they were
generated: they are not this project's design, but they are part of what it
publishes, and by far most of its JavaScript that is not a library. Two of them
react to a reader and keep state: the search (`search.js`) and the table of files
(`dynsections.js`). Each runs in one thread of a browser, as handlers of events,
timers, messages and loads whose order nobody chose.

| Component | State | Operations | Interacts with | Module |
|---|---|---|---|---|
| Link-change protocol | current and previous settings, packet counters, `linkChangeTimeoutTimer`, `heartbeatTimer` | `linkChangeReq`, `serviceLinkChangeReq`, `serviceLinkChangeRsp`, `linkChangeReqTimeout`, the four setters, `heartbeatReq`, `serviceHeartbeatReq`, `serviceTx`, `serviceRx`, `serviceTimers` | its peer over the air; the sketch's callbacks | `LinkChange` |
| RadioHead (library) | ids seen, a driver that holds one packet, the transmission in progress with its retries | `sendtoWait`, `recvfromAckTimeout` | the air; blocks the loop | in `LinkChange` |
| Timers | reference, timeout, `started`, `done`, one sample of `millis()` | `update`, `start`, `pause`, `reset`, `setTimeout`, `clearDone` | called by the protocol | `Timers` |
| Serial input | command buffer and mode, message buffer, current and previous settings | `buildStringFromSerial(Inner)`, `setTxMessage`, the setters, `serviceTx` | the terminal; the test message of the base | `SerialInput` |
| Buttons | three counts and `noPressCount` | the scan every ten milliseconds | the sketch's selection | `Buttons` |
| Base's selection and log | selected setting and values, `valueChanged`, the row written | buttons' actions, `linkChangeInd`, `txInd`, `rxInd` | protocol, display, SD card | `RangeTestBase` |
| Sensor bridge | serial ports, line buffers, `done` flags, `sendTo`, drivers | both `loop()`s | terminal, sensors, the air | `EchoBridge` |
| Search panel | text, filter, last text searched for, key and hide timers, what is drawn, the page asked for | `SearchBox` and its handlers, `init_search` | the page's elements; the frame of results | `SearchBox` |
| Page of results | rows shown, rows unfolded, item with the focus, `lastKey`, `repeatOn` | `createResults`, `SearchResults` (`Search`, `Toggle`, `Nav`, `NavChild`) | the panel: closes it, gives it the focus; hears "take_focus" | `SearchResults` |
| Search as a whole | the two, the key that is down, the pointer | the browser's events, timers, messages, loads | the reader | `DocSearch` |
| Table of files | rows drawn, icons and arrows, stripes | `toggleFolder`, `toggleLevel`, `updateStripes` | the reader | `DynSections` |

Each component's correctness, in a sentence:

* *Link change*: the two ends never settle on settings on which they cannot hear
  each other while one of them believes that they can; each end keeps a change or
  restores exactly what it had; every trial ends.
* *Timers*: a timer fires when it is due and not earlier, across the overflow of
  the clock and whatever it did before it was started.
* *Serial input*: text is sent once and in order, commands are cut out of it and
  carried out, whatever pieces it is read in.
* *Buttons*: a press acts once.
* *Selection and log*: what is selected is what the radio uses, or is marked; a
  row has the settings of its message.
* *Bridge*: lines arrive whole or not at all, at the sensor that was chosen, and
  never stay in a buffer.
* *Search*: when the reader rests, the results of his text for his filter are
  there; a key acts once, on the list as it is drawn; what is open stays open
  while it is used.
* *Table of files*: rows, icons and arrows always tell the same tree.

What makes these hard, and to test harder: packets and acknowledgements are lost,
repeated and discarded; both ends change the settings on which they hear each
other *while* they talk; a wait for an acknowledgement discards other messages; a
timer races a late answer; the clock overflows; characters arrive in any pieces;
and several producers (terminal, test message, two sensors) share one buffer or
one radio. On the site, the focus moves between the three events of one key, timers
outlive what they were started for, and pages load while messages to them are
under way. `PROJECT.json` lists each hazard at its line with the properties that
watch it, or the reason why none does.

## 2. Modules

| Module | Contents |
|---|---|
| `LinkChange` | both range-test nodes, RadioHead and the air |
| `TentativeSettings` | abstract: stable settings and at most one trial that is kept or undone |
| `LinkChangeProofs` | type correctness; what packets and acknowledgements tell; the endpoint implements `TentativeSettings`; `AckMeansAdoption`; and, for a patient user, a response in time, the way back, and what successes mean |
| `Timers`, `TimersProofs` | the two `simpleTimer`s on a clock modulo `M` |
| `SerialInput`, `SerialInputProofs` | characters to commands and messages |
| `Buttons` | the scan of the pins; `RangeTestBase` extends it, and its theorems are in `RangeTestBaseProofs` |
| `RangeTestBase`, `RangeTestBaseProofs` | selection, display mark and log row of the base |
| `EchoBridge`, `EchoBridgeProofs` | both sketches of the sensor bridge; each port implements `LineChannel` |
| `LineChannel` | abstract: a channel that carries lines whole and in order or loses them whole |
| `Pieces`, `PiecesProofs` | what a loop over characters builds, as the pieces that each character adds; facts about it, and induction over numbers |
| `SearchBox`, `SearchResults` | the two classes of `search.js`: records and their handlers as operators, no variables |
| `DocSearch`, `DocSearchProofs` | both in a browser with a reader: variables and actions |
| `FolderTree` | the rows of a table and how they nest |
| `Outline` | abstract: a tree whose folders are expanded or not |
| `DynSections`, `DynSectionsProofs` | the scripts that fold the table; they implement `Outline` |
| `MCLinkChange`, `MCSerialInput`, `MCRangeTestBase`, `MCDocSearch`, `MCDynSections` | values of constants, a later starting state, histories |

`RangeTestBase` composes with the buttons by joining its action to a `Scan` of
`Buttons` in the same step, as `loop()` does. The modules of the protocol and of
the timers meet in one place: `LinkChange` counts time in ticks and lets a timer
be overdue or not; `Timers` models how the class decides that.

### LinkChange

A node either loops, polling the radio in `serviceRx` (`tx[n].kind = "none"`), or
is inside one `sendtoWait`. Nothing else runs on it between two such points, so a
stretch of code between them is one action: `LinkChangeRspAcked` or
`LinkChangeRspGivenUp`, for one, is the rest of `serviceLinkChangeReq` after its
`sendtoWait` *and* the tail of `serviceRx` (cpp:697-711) that follows it.

One stretch is two actions. `recvfromAckTimeout` acknowledges what it takes before
`serviceRx` looks at it (cpp:654), and a request to change the link changes settings
after that (cpp:474-477), on which it depends what the peer's packets meet.
`ReceiveLinkChangeReq` takes and acknowledges the request; `AdoptLinkChangeReq` is
`serviceLinkChangeReq` up to its `sendtoWait` (cpp:454-484). In between
(`tx[n].kind = "adopting"`) the radio is idle, and the peer may hear the
acknowledgement, adopt the settings first, and send on them. The other handlers stay
whole: what they change after their acknowledgement (counters, timers, the next
message) cannot be seen by the peer until they send. The correspondence of state:

| Variable | Code |
|---|---|
| `cur`, `prev` | `current...` and `previous...` members (h:566-573) |
| `good` | `packetCount - packetErrorCount`, which only comparisons with the trust threshold read |
| `linkTimer` | `linkChangeTimeoutTimer` with which of its two timeouts it runs: 3 s (`awaitRsp`) or 24 s (`awaitTrust`) |
| `tx` | a `sendtoWait` in progress; whether the peer has seen the message and the sender heard the acknowledgement; or a request acknowledged and not yet adopted |
| `rxBuf` | the packet in the RF95 driver: whether its id is the last seen (`dup`), whether its sender still waits (`live`) |

The four setters of one change are one step: no other code runs between them and
each shifts its own `current` into `previous`. A broadcast heartbeat is sent by
`serviceTimers`, which many handlers call; `ServiceHeartbeat` is part of each of
those actions. A packet is heard only by a node whose settings agree with the
sender's on `AirParam` (spreading factor, bandwidth, channel: not power). Any
packet may stay unheard and any acknowledgement may be lost. A sender that
repeats a message is a `dup`; `sendtoWait` discards every other message it meets
while it waits (`Discard`), which is how two simultaneous sends hurt each other.

*Time.* A tick passes only while both nodes wait, because the code between two
waits takes milliseconds where a tick is of the order of a second. `SendWait[s]` is the
longest that a `sendtoWait` on the settings `s` may wait with its four transmissions of at
least 200 ms each, and a failing one waits at least a tick. At SF7 and 500 kHz a send with all its retries ends within about
1.7 s, inside the 3 s timer (`SendWait[s] < RspWait`); at SF12 and 125 kHz it takes
about 6 s and outlasts it (`SendWait[s] > RspWait`); both are inside the 24 s of
`TrustWait`. An overdue timer fires at the head of `serviceRx`, before anything
is received.

*Left out:* the sketch's callbacks (in `RangeTestBase`), wording, the contents of
data messages, signal strength, `msgType_dataRsp` (never sent).

### Timers

Time `now` is unbounded, `millis` is `now % M`, and a timer compares a sample of
it with `referenceMillis` modulo `M`, as `uint32_t` subtraction does. `ServiceTimers`
is `serviceTimers` with both `update()` calls and the handlers that clear `done`;
`StartLink`, `StopLink` and `ResetLink` are the sequences of calls that the
protocol makes (cpp:429-436, 505-509, 702-708). `MaxStall` is the longest time that
passes without `serviceTimers`: the wait of `serviceRx` or a `sendtoWait`.
`reset()` takes the *last sample* as its reference, not the present time, which
is a wait earlier; `ResetPostpones` says how much that may cost.

### SerialInput

One round of `loop()`: `StartLoop` (perhaps with the base's `setTxMessage`),
`ReadChar` for each character available, `FinishLoop` with `serviceTx`.
Characters are ASCII codes, because the value of a command is computed from them
with the widths of the code: an enum is a byte, `setTxPower` takes an `int8_t`.
`retval` in `buildStringFromSerial` is not initialised (cpp:276): with nothing
to read the model returns either value. Whether the message is acknowledged does
not matter to the buffer and is left out.

### Buttons and RangeTestBase

`Scan` is one pass of base:284-376: counting, the debouncing rule as written
(`!(enter || valueSelect || enter)`), and the order in which the three buttons
act. `RangeTestBase` adds what a button does, commands from the terminal, the
protocol's timeout, and `linkChangeInd`, which copies the radio's settings over
the selected ones on every change. When the timer runs is the subject of
`LinkChange`; here it may fire at any time after a request. `MCRangeTestBase`
watches one button from its press to its release.

### EchoBridge

A step is one part of a sketch's `loop()`: the base reads USB and sends, then
receives; the endpoint reads and sends for SeapHOx, then for ProCV, then
receives. Between two parts bytes arrive and the other sketch moves. `ReadLength`
is the `while` loop that stops at a newline. `ENABLE_ACK`, DSSS and FHSS are off
in the sources and not modelled; checksums and the LED decide nothing and are
left out.

### SearchBox, SearchResults and DocSearch

A handler is an operator from the record of its part to the record after it, so
that a handler which calls another, or one of the other part, is a composition, and
an action of `DocSearch` is one event with everything that runs before the browser
turns to the next. `box` is the panel:

| Field | Code |
|---|---|
| `value`, `focus` | the text of `MSearchField`; which part has the focus |
| `active`, `searchActive`, `lastSearchValue`, `searchIndex` | members of `SearchBox` and the class of `MSearchBox` |
| `keyTimeout`, `keyTimers` | whether a timer's handle is known; how many timers run, for `Search` forgets the handle whoever calls it (search:332) |
| `hideTimer` | the timer of the list of filters |
| `marked`, `selectShown`, `resultsShown`, `closeShown` | the mark beside a filter; `style.display` of the three elements |
| `location`, `loading`, `posted` | the page that the frame was sent to, whether it has come, messages "take_focus" under way |

`page` is the page in the frame: which rows match, which are unfolded, which item
has the focus, `lastKey` and `repeatOn`. `lastResultsPage` and `lastMatchCount`,
which nothing reads, are left out. Of `blur` and `focus` it matters that they
call `OnSearchFieldFocus` at once (`MoveFocus`), and that an element that is
hidden loses the focus. A key is three or more events: `KeyDown`, perhaps
`KeyPress` and repeated `KeyDown`s, `KeyUp`; `held` is the key between them, and
each goes to whatever has the focus *then*. Enter on a link of a page of results
leaves the site's page and ends the session; on a row with several results it unfolds it.

The text is that of the code, character codes with the code's ways to trim, lower
and encode it (`convertToId`), because which rows are shown and when a text counts
as changed depend on those. The surrogate pairs of search:339 never occur in the
index and are left out, as are the positions of elements.

### FolderTree, Outline and DynSections

A row's id is the path of numbers in it. `toggleFolder` decides by what is drawn
(dyn:87), changes icons of the clicked row and of the rows that come (dyn:90-101)
and leaves those of the rows that go; `toggleLevel` sets those of the rows it
shows. `Outline` knows nothing of rows: a folder is expanded or not, and a folder
that comes back is collapsed. The mapping takes a folder to be expanded if it is
drawn and has the open icon.

## 3. Runs

| Run | What it asks | Bounds |
|---|---|---|
| `link_agreement` | `SuccessesMeanAgreement`, `FallbackIsStable`, `ResponseInTime`, `TrialEnds` and the types, with a patient user | the spreading factors 7 and 12, trust 3, `SendWait` 1 and 3, `RspWait` 2, `TrustWait` 7; 455,000 states |
| `link_operators` | `AckMeansAdoption` and `ServerKeepsOrRestores` with an impatient user, commands typed during trials and a base that loses power | trust 1, `TrustWait` 3; 447,000 states |
| `timers_due` | `FiresWhenDue`, `StartsAfresh`, `ResetPostpones` | clock modulo 8, 18 ms: two overflows, timeouts 3, 5, 4, stall 2; 22,000 states |
| `serial_input` | `TextKept`, `SettingsFollowCommands`, `TextNeverReordered`, `TestMessagesSent` | a first command and five more characters out of newline, `!`, `&`, `1`, `S`; one test message; buffers of two and four; 2.3 million states |
| `base_buttons` | `PressesActOnce`, `SelectionIsMarked` | every subset of buttons in every scan, counts of three bits, two settings; 687,000 states |
| `echo_lines` | `UsbLinesArriveWhole`, `SensorLinesArriveWhole`, `LinesLeave` | four bytes in all, on any of three ports, out of five and three kinds; 180,000 states |
| `doc_search` | `RemembersOpenSearch`, `PopupStaysUnderPointer`, `KeysFollowTheList`, `ResultsArrive` | two filters with three rows, one of two results; texts of two characters; one key timer and one message at once; three kinds of session; 383,000 states |
| `doc_tree` | `RowsFollowIcons`, `StripesAlternate`, `IsOutline` | three levels, sixteen rows; all 512 states |
| `link_client` | finding: the base starts the timer on a late response, after it has gone back | as `link_agreement`, `TrustWait` 5 |
| `link_late_response` | finding: a response read and acknowledged on the wrong settings | as `link_agreement` |
| `buttons_setting` | finding: button A acts twice | as `base_buttons` |
| `base_rows` | finding: a row with settings that were not used | as `base_buttons`, counts of two bits |

Why these bounds are enough for the cases that matter:

* *Two values of one parameter.* The protocol compares settings only for being
  able to hear each other and moves them as a whole; two values distinguish
  current, previous and requested as far as hearing goes, and a request for the
  same values is among the behaviours. Changes by one parameter of several occur
  only through commands, which the theorem `ServerRefinement` covers for any set
  of parameters.
* *Trust 3* is the code's. The states "one, two, three, more successes" all
  occur. `link_operators` has trust 1, to make room for commands and restarts;
  its two properties do not mention the count.
* *Ticks.* What matters of the waits is their order, and `link_agreement` has both
  orders that the settings of the radio produce, and changes from one to the other:
  on a spreading factor of 7 a send ends within the 3 s timer, on one of 12 it outlasts
  it, and both end within the 24 s. The waits of a tick or two still let a
  timer expire before, during and after each send.
* *Modulo 8 and 18 ms*: the clock overflows twice while timers run, are stopped
  and are restarted; timeout plus stall is below the modulus, as it is with 2^32.
  The theorems hold for any values.
* *Nine characters* hold two commands, or a command with text before, between and
  after; `PortSize` 4 allows reads in pieces of up to four. Two characters of
  command buffer suffice for a command, and a longer one meets the bound.
* *Counts of three bits* overflow within the behaviours, which is why the
  property is limited to the scans before the overflow.
* *Four bytes* make two lines with one byte, or one line with a change of sensor
  in it, or one line on each of two ports that share the radio.
* *Sessions of the search.* All that a reader may do at once is beyond TLC, so the
  run has three readers (`InSession`): one works the list of results with
  unfolding and with Up and Down repeated while held, and leaves the filters closed; one opens and chooses
  filters with keys and clicks, types one character at a time and enters and
  leaves the results; one does that with the pointer over the list of filters.
  All handlers run in one of them, and each property has the session that may break
  it. Two characters hold a text and its beginning. One key timer runs at once: a
  second beside one that `Search` forgot, and a second message to the frame before
  the first came, are cut off by `MaxTimers` and `MaxPosted`. With both at two, the second and
  third session hold as well (693,000 states); one keeps the run short.
* *A tree of three levels* is as deep as that of `files.html`; a folder with two folders has a row
  before and a row after, and the theorems hold for every tree.

The expected violations each show a disagreement of the program with what its
text says:

1. `link_client`: `linkChangeReqTimeout` "resets radio settings to previous
   values" (h:647), but the previous values are those of the last setter call,
   not of the change that the timer guards, and `serviceLinkChangeRsp` starts the
   timer whether or not a change is pending (cpp:505-509). The run: the base at SF 7
   asks for 12, adopts it and waits. The response arrives when the 3 s timer is
   overdue, so the base first goes back to 7, which makes 12 its previous value, and
   then handles the response: the timer runs again, and unless enough packets
   succeed the base moves 24 s later to the settings that it abandoned.
2. `link_late_response`: "Transmission OK on new settings!" (cpp:502) is printed
   on the old settings. The shortest way is the same: a response that was already in
   the driver as the timer expired is read, reported and acknowledged after
   `linkChangeReqTimeout`. The endpoint, on the new settings, cannot hear that
   acknowledgement; its retries fail and it goes back too.
3. `buttons_setting`: the debouncing rule tests `enter` twice and `settingSelect`
   never (base:314), so that a held button A whose contact chatters acts again.
4. `base_rows`: the columns of a row are the settings of the message (base:47),
   but `txInd` and `rxInd` write those selected with the buttons.

Noticed while modelling, without a run of their own, because the model already
does what the code does and no property depends on the text:

* the response *restarts* the revert timer at 24 s (cpp:503-509), where h:523
  says that it stops it;
* invalid values are refused by the setters; h:361, 372, 381 and 390 say that
  they set a default;
* the table of commands (h:423-426) gives S 0–10, B 0–3 and P 1–20; the code takes 0–5, 0–2 and
  2–20;
* `!PJ0` computes 260, which is 4 dBm as an `int8_t`, and is accepted (cpp:347);
* `buildStringFromSerialInner` returns 1 or 0, not the number of characters
  (h:636);
* button C sends a request although nothing was changed;
* the comment at cpp:431 says 5 s for a timeout of 3 s.

And of the search, where no text of the repository says what it should do:

* a key timer that runs when the field is left searches afterwards for the text
  then in the field: for the label, or for nothing, which is found at the first place of
  the index and opens its first page;
* Down in the list of filters goes one beyond the last (search:295); `Search` then
  throws, and Enter and Escape no longer close the list;
* Shift+Down within half a second of typing drops the search that was due, since the
  timer is stopped before the key is looked at (search:182-205);
* Enter or Escape in the list of filters moves the focus to the field while the key
  is down: its release is then handled there and moves on to the results, or clears
  the text;
* choosing a filter while a text has not been heard of yet (a key still down) leaves the results of the
  filter before, if it is the last text again;
* blanks inside a text are dropped to compare it (search:222) and kept to search for
  it (search:335), so that such a text is searched for again at every key;
* `searchValue > 1` (search:339) compares a text with a number;
* the number that makes an id unique is part of what is compared: `data"`, which
  is `data_22`, finds the row `data_22`.

## 4. Fairness

Three runs state liveness.

* `LinkChange!FairSpec`: time passes (`[]<><<Tick>>_vars`), and
  `LinkTimerExpires` is strongly fair. The first holds of any clock: each
  transmission and each poll of `serviceRx` takes time, so that no unbounded
  amount of traffic fits between two ticks. The second is the scheduling of the
  sketch: every round of `loop()` ends in `serviceRx`, whose first call is
  `serviceTimers`; *strong*, because a node that sends again and again leaves and
  enters its loop, so that the action is enabled again and again but not
  continuously. The handlers need no fairness: a tick waits until none is due.
  Nothing is assumed of the air: all packets may be lost, or all may arrive.
* `EchoBridge!FairSpec`: weak fairness of the next part of each `loop()`, which
  runs for ever and waits for nothing. No fairness of arrivals or of the radio.
* `DocSearch!FairSpec`: weak fairness of `Browser`: as long as a timer runs, a page
  loads or a message is under way, one of them comes. They are one action
  because the browser's event loop serves whatever is due; nothing is assumed of which
  comes first. The reader owes nothing, not even to release a key: `ResultsArrive`
  speaks of behaviours in which he does nothing more, and asks nothing while a key is
  down. Its other premises name what the code does not promise: that the panel has
  heard of the text (`seen`: the release of a key came to the field and was not Shift+Down)
  and that no release was missed while the panel still remembered an older text (`missed`).

`CHECK_DEADLOCK` is on everywhere: no model can stop.

## 5. Proofs

Checked by TLAPS for every value of the constants that the named assumptions of
the modules allow (`NodesAssumption`, `ParamAssumption`, `TrustAssumption`,
`TimeAssumption`, `OperatorAssumption`; `TimersAssumption`; `SerialAssumption`;
`CountAssumption`, `SettingsAssumption`; `PanelAssumption`, `RowsAssumption`, `ReaderAssumption`;
`RowAssumption`, `LevelsAssumption`; `BytesAssumption`). TLC evaluates each of them in the runs.

**`LinkChangeProofs`**

* `TypeCorrect`: `Spec => []TypeOK`, for any parameters, valid values, trust
  threshold and timeouts. The type is inductive: a lemma for each group of
  actions (the loops, the air, receiving, `sendtoWait` returning, timers, time),
  over lemmas about the shared parts (`AckOutcomes`, `ServiceHeartbeat`,
  `FinishRx`, `SetLink`).
* `ServerRefinement`: `Spec => ServerKeepsOrRestores`. The endpoint implements
  `TentativeSettings` with the trial being the time between adopting a request
  and the end of the `sendtoWait` of its response. The mapping needs an
  invariant that the code has implicitly, `Roles`: only the base requests and only
  the endpoint responds, hence the endpoint's link timer never runs. Without it
  a revert of the endpoint's own could interfere with a trial. Every step then is a `Try` (a
  request is adopted), a `Keep` (the response is acknowledged), a `Restore` (it is not), a
  `Command`, a `Restart`, or a stutter.
* `DeliveryCorrect`: `Spec => []Delivery`. The invariant on which everything about two ends
  rests: a live packet in a driver is the message its sender waits for; it is marked as a
  duplicate exactly if it has been seen; any other packet means that what the peer sends now
  has not been seen; and once an acknowledgement was heard both drivers are empty until
  `sendtoWait` returns. It is inductive with the types alone and holds with any commands and
  restarts.
* `AckMeansAdoptionHolds`: from `Delivery` and `Honoured` (what the endpoint has seen asked
  for is what it has, or what it had before, or what it is about to adopt). The base may adopt
  first; what cannot happen is that it adopts what the endpoint then drops. Its hypothesis is that the *endpoint*
  is neither commanded nor restarted: either takes it to settings of nobody's choice. The
  base may be commanded and restarted and may ask while a trial runs, as in `link_operators`.

* `ResponseComesInTime` assumes a user who waits for a change to end
  (`OverlappingRequests = FALSE`) and types no command at the base; either end may lose
  power. The inductive invariant `Timely` relates the two clocks: a request that
  waits in the endpoint's driver does not age (`RequestFresh`), from then on the base's timer
  runs no longer than the endpoint has waited (`Paced`), the endpoint waits no longer
  than its retries take (`TrialWaits`), and therefore a response that the base has not
  read finds the timer not due (`ResponseFresh`).
* `FallbackStaysStable` and `SuccessesAgree` assume in addition that nobody types
  commands and nothing loses power (each, by design of the protocol, parts the two ends), and that
  every `sendtoWait` ends within 24 s, as it does on all settings of the radio. Their
  invariant is `Agreement`. The property alone is far from inductive, since a
  first success may be for a packet of before the change. `FirstSuccess` says that
  then nothing has been counted yet and, during a trial, its sender still
  waits for the acknowledgement; `KeptTogether` that the endpoint keeps what it tries
  only if the base is there or has counted nothing; `RequestSeen`, `RequestTaken` and `DataSeen`
  what a message of the base's tells of the endpoint; `Awaiting` and `TrialAgrees`
  that while the base awaits a response nothing of a second change is on its way.

**`TimersProofs`**

* The inductive invariant `Consistent` says that each register is the true time
  it stands for modulo `M`, that no timer was overdue at the last sample, that no
  `done` flag survives `serviceTimers`, and that the last sample is at most
  `MaxStall` old. With it the lemma `ClockDifference`, modular arithmetic about
  two times less than `M` apart, turns the comparison of the registers into one
  of true times. This is where the assumption that timeout and stall together
  stay below `M` is used.
* `TimersTyped`, `TimersFireWhenDue`, `TimersStartAfresh` follow; for
  `ResetsPostpone` the invariant is extended with `ResetRecent`: the reference of
  a running link timer is at most one stall before its last start or reset.

**`SerialInputProofs`**: all properties of the run, for any set of characters, any
lengths of buffers, any number of characters and periods.

* The properties read all that was typed at once: `TypedText`, `CommandAt` and `SettingsOf` are
  functions of the whole input. The proofs show for each what one more character
  adds to it (nothing, a byte of text, a byte of the command, a value), and that
  `ReadChar` does the same to the buffers. `FlattenSeq`, from which those functions are made, is
  recursive: that it grows by its last piece is a lemma of `PiecesProofs`.
* `TextKeptAlways` needs `ModeFollowsLine`: the flag `serialCommandMode` says whether the
  line so far has a `!`. `SettingsAreFollowed` needs `CommandCollected` besides:
  the command buffer holds the bounded beginning of the command on this line,
  even if its line was begun messages ago.
* `TextStaysInOrder` needs `KeptInOrder` in the form "a subsequence of what was read,
  also together with what waits in the buffer", because a test message throws away what waits.
* `TestsAreSent` needs `TestInRound` (a test message that was set is sent in the same round of `loop()`,
  whatever is read in between, even an escape), and that a
  test message stands only where a test message begins a message.

**`RangeTestBaseProofs`**

* `SelectionMarked`: `SelectionIsMarked` is inductive as it stands, for any
  settings and ranges. `TypeCorrect` needs besides that no count is two between
  scans (`Handled`: whatever comes to two acts and is changed).
* `PressActsOnce`, about the specification with histories `MCSpec`. `CountRunsOn`
  is the reason: after the button has acted, its count goes up from three by at most one in a
  scan, and must pass the limit and come to two again to act a second time; `QuietWatched` ties the
  code's `noPressCount`, which two buttons share, to the scans of the one that is watched.

**`EchoBridgeProofs`**: for any bytes, any number of them, split in any way among the runs of
the loops, and any loss.

* `UsbRefinement` and `SensorRefinement`: each port implements `LineChannel`. The channel's queue is
  a function of all the bytes that came to the port (`came`) and of how many of them the loop has
  not read. The invariant `BridgeInv` ties the buffers to that history: the port's buffer is the end of what
  came (`Waiting`), the line buffer is what the bytes read since the last newline amount to and is empty
  once `done` is set (`InStep`), and `sendTo` is what all the bytes read at the USB port choose, not only
  those of the last run of the loop.
* A byte that arrives adds to the queue the line that it ends, if it ends one (`LinesArrive`). One run of the
  `while` loop takes no line if it meets no newline (`RunOpen`), and otherwise exactly the first one, with the text
  that is in the buffer and with the type that `sendTo` gives (`RunEnded`, `LinesTaken`, `SentKind`).
  `StepMoves` puts together what any step does to any port. That the sensors share one driver is
  harmless because the packets of one never have the type of the other. An empty line takes no place in
  the queue: the code sends none.
* `TypeCorrect` follows from the same invariant.

**`DocSearchProofs`**: for any index, label and keyboard, any number of timers and
messages, all sessions, and any rows of the pages if those whose ids begin alike stand
together (`RowsAssumption`).

* `TypeCorrect`, `OpenSearchIsRemembered` and `PopupStays` share one inductive
  invariant, `IInv`, over panel, page, pointer and key. Each handler of `search.js` has a
  lemma that says what it keeps of a record, and an action is a composition
  of handlers, so its proof composes their lemmas. `RemembersOpenSearch` is inductive with the types.
  `PopupStaysUnderPointer` needs that no hide timer runs while the pointer is over
  the list: every handler but the one of the pointer's leaving can only stop that timer.
* `KeysFollow`: `Spec => KeysFollowTheList`. `DownIsBelow` and `UpIsAbove` show that `Nav` and
  `NavChild`, which go by the numbers of rows and children, lead to the neighbour among the
  lines as they are drawn (`Above` orders them). They need the part `Listed` of the
  invariant: the rows shown are those that match the page's text, only rows with children
  unfold, and the item with the focus is drawn. Down needs no more. Up looks for children
  under the row just above (search:631), shown or not. That is right only because the rows
  that match a text stand together (`MatchesTogether`, from `RowsAssumption`; the lemma
  `IdType` about the recursive `convertToId` says that the text has an id at all). That the "keypress"
  after the "keydown" does not move again is the part `Quiet`: until it comes, `repeatOn` is
  off, unless the key is Enter, which is left to the browser.

**`DynSectionsProofs`**

* `RowsFollow`: `Spec => []RowsFollowIcons`, for every set of rows that is a tree
  and every choice of levels. With the type of `shown` and `open` the property is
  inductive. The lemmas about trees carry it: a row is in one folder only
  (`OneFolder`), what is below a folder is below one of the rows on the way to it
  (`BelowThroughFolder`), and the first row of a folder, by which the code
  decides, is drawn exactly if the folder is open (`FirstRowTells`).
* `TableIsOutline`: `Spec => IsOutline`. A click on a folder is an `Expand` or a
  `Collapse`, a level is a `ShowLevel`. `FirstRowTells` is what makes the code's
  choice, taken from the rows, the abstract one.
* `RowsAlternate`: `Spec => []StripesAlternate`. Every handler ends in `updateStripes`, so the
  theorem is about that operator. `Before` is a strict total order of the rows; the next row that is
  drawn has exactly one drawn row more before it, hence the other stripe. Counting rows is where the table must
  be finite. `TypeCorrect` comes with it.

*Induction.* The library's induction theorems take the property to be proved as an operator, which the
provers cannot instantiate. Induction over numbers is had without them:
the lemma `Induction` of `PiecesProofs` says that a *set* of numbers that has zero
and the successor of each member is `Nat`, and follows from the well-foundedness of
`<`; a property is then the set of numbers that have it.

*Only model-checked.* `TrialEnds`, `LinesLeave` and `ResultsArrive`: liveness under
fairness, out of the prover's reach.

## 6. Not modelled

* Drawing on the display and the format of a row: pure output.
* Bytes beyond the end of a buffer: `txMsg.bufLen` and `inputBufIdx` are not
  checked by the code, and what the extra writes hit depends on the layout of
  memory. Both modules keep their texts shorter than the buffers.
* `rxMsg.bufLen` after a message that RadioHead drops: inside the library.
* Deprecated sketches, vendor examples, Pycom experiments, the `proO` stub, test
  stubs, and the circuit board. `PROJECT.json` gives the reason for each.
* On the site: where elements are drawn (`getXPos`, `getYPos`); `toggleVisibility` and
  `toggleInherit`, which fold sections that no page of this site has; `menu.js`,
  which builds the menu once; the data of the menu and of the index, which are
  constants; jQuery. That the index is as `RowsAssumption` takes it (rows whose ids
  begin alike stand together) was compared with all 757 rows of `search/*.js`.
* More than two nodes: the sketches address one peer.
* Restarts and commands of the endpoint under TLC: covered by `ServerRefinement`
  for the property they concern; the run restarts the base.
* Overlapping requests in `link_agreement`: with a second request
  during a trial `SuccessesMeanAgreement` does not hold, and nothing in the
  sources says that it should; the run assumes a user who waits for the end of a trial.

## 7. Plan

Done, in order of importance: the link-change protocol with its library, its
abstract specification and proofs; the timers with proofs; the bridge; serial
input; buttons with the base's selection and its proof; the site's search; the
table of files with its proof.

Proved since: all safety properties of the protocol, of serial input and of the base, those
of the search, both refinements of the bridge, and the stripes of the table.

Next: two parameters in a run of the protocol, so that a command may change
one while a request changes both.
