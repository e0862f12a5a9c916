# nanoDLNA: specifications, model checking and proofs

nanoDLNA is a DLNA media server in Go: it scans a folder, keeps an index of the
videos in it, and serves that index over UPnP. This directory holds TLA+ modules
for the parts of it where something can go wrong that a unit test would hardly
reach, the TLC configurations that check them, and proofs that TLAPS checks.

Contents: [the system](#the-system), [what is hard](#what-is-hard-here),
[modules](#the-modules), [runs](#the-runs), [fairness](#fairness),
[proofs](#the-proofs), [disagreements](#where-code-and-words-disagree),
[not modelled](#what-is-not-modelled), [plan](#plan).

## The system

| Component | Source | State it keeps | Operations | Talks to |
| --- | --- | --- | --- | --- |
| media library | `internal/library/library.go` | the published index (`root`, `byID`, `stats`, `rejected`) and `updateID`, under `mu`; a scan's private `builder` | `Scan`, and readers that each take the read lock once | asks a `Validator` about every video from a pool of workers; calls `AfterScan` |
| subtitle matching | `library/subs.go`, `lang.go` | none | `matchSubtitles`, `sortSubtitles` | called by the walk |
| content directory, media | `upnp/contentdirectory.go`, `objects.go`, `media.go` | none of its own | Browse, GetSystemUpdateID, `/media/`, `/subs/`, `/thumb/` | reads the library in several short critical sections |
| events | `upnp/gena.go`, `server.go` | the table of subscriptions under `subsMu`; `rescanMu` | SUBSCRIBE, renewal, UNSUBSCRIBE, `Rescan`, `notifySubscribers`, `sendEvent` | one goroutine per event |
| discovery, lifecycle | `upnp/ssdp.go`, `server.go`, `main.go` | sockets, the channel `closed`, a WaitGroup, `errCh` | `Start`, announcing, reading, answering searches, `stop`, `Close` | the network; `main` waits for Ctrl+C or an error |
| validation | `internal/probe` | `Store.records`, `Store.touched`, the file `probe.json` | `Check`, `Get`, `Put`, `Save` | called by the pool; runs ffprobe and ffmpeg |
| thumbnails | `internal/thumb`, `internal/cache` | a semaphore; the cache directory | `Maker.Get` | runs ffmpeg; one call per request |
| container metadata | `internal/avmeta` | none | `ProbeFile` | called by the pool |

The rest (SOAP and DIDL text, descriptions, icons, charsets, socket options,
flags, the web page's markup) keeps no state and is listed in `PROJECT.json`.

A rescan goes through most of it: the web page's request takes `rescanMu`,
`Library.Scan` walks the folder, the pool asks `Prober.Check` about every video,
the index is published and `updateID` bumped, `AfterScan` saves the verdicts,
`announceAlive` tells the network, `notifySubscribers` tells the subscribers, and
control points Browse again, with ids they learnt from the index before.

What makes each part correct:

- **library**: readers see whole, coherent indexes; only checked videos appear;
  an id names the same file as long as nothing before it changed; scans end.
- **content directory**: a listing taken in pages is exact if the UpdateID never
  changed; an id from it plays the file it showed.
- **events**: no subscriber is left with an old UpdateID; SEQ has no gaps and
  orders the UpdateIDs.
- **validation**: an answer from the store was earned since the stamp it is used for
  was taken, by nothing newer than the last walk; refusals are never reused; a crash
  does not corrupt the store.
- **thumbnails**: bounded runs of ffmpeg, bounded repetition, whole pictures,
  none older than the stamp in its name, every request answered.
- **discovery**: stop ends every loop, nothing is announced after it, errors
  neither end the reader nor get lost.
- **subtitles**: every file named after the video is found, and the leading track
  does not depend on the order the folder was read in.
- **containers**: parsing a damaged file stays in range, moves forward and ends;
  the width and the height reported belong together.
- **together**: a control point that lists again when an event tells it to ends up
  with the current listing.

## What is hard here

`PROJECT.json` lists the hazards with their lines. The main ones: publication of
an index against many small readers; one feeder and several workers on one
channel; ids held by clients across rescans; SUBSCRIBE between a scan and its
notification; events that overtake one another or are lost; a store written by
one run of the program and trusted by the next, at another level, after a crash;
files that change between the walk's stamp and the tools' look at them; a
semaphore with several error paths; goroutines that announce while the service
says goodbye; sizes from damaged files that overflow when added, are not known, or
reach past what encloses them.

## The modules

| Module | Models | Composes or extends |
| --- | --- | --- |
| `MediaTree` | the folder, the indexes there can be, dropping, pruning, sorting | |
| `PublishedIndex` | abstract: what the library promises its readers | |
| `MediaLibrary` | `Library.Scan` step by step | extends `MediaTree`, implements `PublishedIndex` |
| `ContentDirectory` | a control point paging and playing while the index changes | extends `MediaTree`, uses the library as `PublishedIndex` describes it |
| `Gena` | subscriptions, rescans, events | |
| `Control` | the control point of `ContentDirectory` as a subscriber of `Gena` | extends `ContentDirectory`, `INSTANCE Gena WITH` the same `updateID` |
| `ProbeStore` | verdicts and their store across scans, runs and crashes | |
| `Thumbs` | concurrent `Maker.Get` with cache and semaphore | |
| `Discovery` | start-up, announcements, searches, shutdown | |
| `Subtitles` | `matchSubtitles` and the ranking of tracks | |
| `Walks` | what the three container parsers share: a stack of nested walks | |
| `Mp4Boxes`, `Matroska`, `Riff` | the walks of `probeMP4`, `probeMKV`, `probeAVI` | each extends `Walks` |
| `Containers` | `ProbeFile`: the choice of a parser, and its run | extends the three parsers |
| `MCTree`, `MCMediaLibrary`, `MCControl`, `MCProbeStore`, `MCThumbs`, `MCSubtitles` | values for the constants | |
| `MediaLibrary_proofs` | theorems about `MediaTree` and `MediaLibrary` | extends `MediaLibrary` |
| `Gena_proofs`, `ProbeStore_proofs`, `Thumbs_proofs`, `Discovery_proofs`, `Subtitles_proofs`, `Containers_proofs` | theorems about the module each is named after | each extends that module |
| `Control_proofs` | theorems about `ContentDirectory` and `Control` | extends `Control`, `INSTANCE Gena_proofs WITH` the same `updateID` |

An operator named `X_Something` directly before `X`, under a comment that begins
"Fault:", is `X` with a plausible bug in it. It is used by nothing: putting it in
the place of `X` must make a run fail, which shows that the property would notice.

### MediaLibrary

`phase` is the place in `Scan`: `idle`, `walk`, `probe` (inside `probeAll`),
`publish` (between `wg.Wait` and the critical section), `published` (before
`AfterScan` returns). `walked` is `builder.byID`, so an index into it is an id.
`todo`, `pool` and `at` are the feeder, the number of workers started and what
each worker holds; the channel is unbuffered, so `HandOut` is a rendezvous.

| Action | Code |
| --- | --- |
| `StartScan`, `ScanFails` | the checks at the head of `Scan`, then the first `os.ReadDir` |
| `WalkDir`, `WalkVideo` | one entry in the loops of `walk`, in its sorted order |
| `StartProbing`, `HandOut`, `Probe`, `ProbingDone` | `probeAll` and `probeNode` |
| `Publish` | `dropRejected`, `prune`, the counts, and the critical section |
| `FinishScan` | `AfterScan` and the return |

The folder may change at any time, so `ReadDir` returns any subset of what may
exist, and a verdict is any verdict. Scans do not overlap (`rescanMu`, and `main`
scans once before serving). The counts of skipped files and of errors are left
out. The refinement is `INSTANCE PublishedIndex WITH` `index` and `updateID` as they
are: the scan's own state is hidden, and `Publish` is the only step that maps to
`Replace`.

### ContentDirectory and Control

Requests are stateless, so one control point is modelled: it reads the UpdateID,
lists a folder page by page, and plays something listed. A Browse is two steps
(`BrowseLookup`, `BrowseAnswer`), because the handler reads the nodes and the
UpdateID under different locks. `Rebuild` is any index of `MediaTree`'s `Indexes` at
any time: there is one for every set of entries the walk may meet (in the order of
`RankOrder`) and every set of refused videos, and `ScansPublishIndexes` proves that
`MediaLibrary` publishes no other. `Sorted` gives a set as a sequence by the number
of elements before each; it is `SetToSortSeq` written so that it can be reasoned
about.
Resolving a `/subs/` or `/thumb/` id is the lookup `Play` makes.

`Control` runs this control point against the events of `Gena`, around one library:
`Rebuild` and `Gena`'s `ScanSucceeds` are one step, because `Scan` publishes the
index and its UpdateID under one lock. The steps of a rescan, of the subscription
and of the deliveries interleave with those of a listing in every way. The control
point may list at any time; `ListingsCatchUp` speaks of the states in which no
event that was sent to it is lost or tells of an index newer than its listing.

### Gena

One action per critical section or step that others can see. `rescan[r]` is the
place of a `Rescan` call; `subs` the table, with `expired` for the passing of the
timeout; `sent` every event for which a goroutine was started, with the body it
was given; `heard` those that arrived. An event in `sent \ heard` is on its way or
lost: the code logs a failed delivery and changes nothing.

### ProbeStore

What a file holds is numbered by occasion, so the numbers only grow: a file that is
put back, with its old contents, size and time, is a further version with the stamp
of the earlier one. `Stamp` is what size and time in seconds tell of a version, and is
any function: next to each other or not, versions may share a stamp. One sequence of
versions serves all files, because each file may pass over versions unseen. The walk stamps (`BeginScan`), a worker
asks the store (`Check`), runs ffprobe (`RunProbe`) and at level content decodes a
frame early in the file and one late in it (`CheckPayload`, twice), each from what
the file holds by then, and the verdict is put in the store. `Save`, `WriteTemp`,
`Rename` are `AfterScan`. `Crash` is possible everywhere. `Start` asks for any
level, finds or does not find ffprobe and ffmpeg (`InForce` is what `New` makes of
it), and has a store or not (`kept`: `main` runs without one when there is no cache
directory). ffprobe and ffmpeg may fail on anything and accept what `Headers`,
`Early` and `Late` say.

### Thumbs

`pc[r]` follows `Maker.Get`: look at the shelf, queue for a slot, look again,
render, fall back to the start of the file, write beside, rename, release. The
name of a cached picture is the pair of video and stamp. Versions and their stamps are
as in `ProbeStore`; `seen` and `asked` hold the version that was stamped, of which only
the stamp goes into the name. `made` is the set of requests whose rendering succeeded
and has not been lost: `WriteTemp` and `Rename` take a request out when the picture
cannot be kept: `Get` returns it all the same (thumb.go:138-141), and the next request
renders it again, so there is no bound on those.

### Discovery

`main` follows `run`, `Start`, `Close` and `stop`; three kinds of goroutine
announce (ticker, burst, rescan), one reads, and the handler of one search waits
and answers. An announcement is one packet per target, so announcers interleave.
`wg` is the WaitGroup. When `main` is at `exit` nothing moves.

### Subtitles

A name is a sequence of tokens, a language a number. `parseSubSuffix` says what its
loop has gathered when it is over, by the positions of the tokens: the first tag
gives the language, and any tag or qualifier makes the suffix recognised. `Take` is
one round of the loop in `matchSubtitles`, `Sort` the stable sort with the five-key
comparison `Before`: the first of the five `Keys` in which two tracks differ
decides. Of `sort.SliceStable` only its contract is used: `SortStable` is the set of
arrangements in which no track stands behind one it should precede. That there is
always exactly one is not assumed; `Sort` would be stuck without one, which the
run's check for deadlock shows, and `TracksSortOneWay` proves it. `Done` stands for a
call that has returned.

### Walks, Mp4Boxes, Matroska, Riff, Containers

The state is a stack of walks over ranges. Each step reads the next header of the
innermost walk, and the header is any header that fits; what the file holds is not
part of the state. Lengths are in units of the shortest header of the format (eight
bytes in MP4 and AVI, two in Matroska), int64 is five bits wide and wraps.
A width or a height is represented by the place it was read at, so that a pair of
them can be told to belong together.

The three formats differ in how a walk ends up where it is:

- `Mp4Boxes`: a box must end inside the range it lies in (`Valid`), but the sum
  that says so can overflow; `Behind` then ends the walk.
- `Matroska`: the end of an element is its declared size cut to the file (`Clamp`),
  or, if the size is not known, where the search for a sibling stops (`SiblingAt`);
  the element around it is not considered. A walk can therefore stand behind its own
  end, and the walk around it goes on from the end declared there. Once `Info` and
  `Tracks` have been seen all walks return (`Return`). A size of 0 told by `Stat` is
  taken for one that is not known, and the file is read as far as it goes.
- `Riff`: a chunk's end is cut to the range it lies in (`Chunk`), and the padding
  added afterwards (`Beyond`).

`BadBox`, `BadElement` and `BadChunk` are headers that cannot be read or are
refused; the callers drop the error, so the walk around goes on. Depth limits are
not reached by the fixed nesting of the callers.

## The runs

| Run | Bounds | Shows |
| --- | --- | --- |
| `media_library` | 2 nested folders, 3 videos, 2 workers, 2 scans | `EachVideoProbedOnce`, `IndexCoherent`, `OnlyCheckedVideosAppear`, `IdsFollowTheFolder`, `ScansEnd`, and refinement (`ReadersSeeWholeIndexes`) |
| `control` | 1 folder, 2 videos, pages of 1, 1 subscription, 1 rescan, 1 lapse | `SteadyListingIsExact`, `SteadyIdPlaysItsVideo`, `ListingsCatchUp` |
| `gena` | a subscription of each service, 2 rescans, 1 lapse each | `SeqNamesOneEvent`, `EventsFollowTheLibrary`, `NobodyIsLeftBehind`, `SeqHasNoGaps`, `RescansFinish` |
| `probe_store` | 2 files with 4 successive versions under 2 stamps, one put back, 2 scans, 2 runs of the program | `CachedYesWasEarned`, `AcceptedFilesAreRemembered`, `StoreSurvivesCrashes` |
| `thumbs` | 1 video with 3 versions under 2 stamps, the last one put back, 3 requests, 2 slots | `MadeAtMostWorkersTimes`, `PicturesAreWhole`, `NeverOlderThanTheStamp`, `EveryRequestIsAnswered` |
| `discovery` | 2 targets, a burst, a tick, a rescan, a read error | `LoopsEndByStop`, `SilentAfterStop`, `InterruptEndsProgram`, `FailureEndsProgram`, `SearchesAreAnswered` |
| `subtitles` | pools of up to 3 of 13 files, 3 preferences | `EveryNamedFileIsATrack`, `ComparisonIsConsistent`, `OrderIsThatOfTheNames` |
| `containers` | files of 0, 6 and 9 units in each format, offsets up to 15 | `WalksStayInside`, `WalksMoveForward`, `ParsingEnds`, `DimensionsAreOfOneVideoTrack`, `NothingIsReadAfterBoth` |

Four more runs expect a violation: see the [disagreements](#where-code-and-words-disagree).

Why these bounds are enough for the questions asked:

- *media_library*: a folder inside a folder makes pruning recursive; three videos
  for two workers leave one waiting while both are busy; a second scan can differ
  from the first in every way, which is what ids and publication are about.
- *control*: a page of one makes a listing take several requests, and the rescan
  can fall between any two reads. The index after it is any index at all. More would
  be one more change of the kind already seen, because the properties compare two
  indexes. The lapse makes the control point subscribe again between its listings.
- *gena*: entries of the table do not influence one another, so one subscription
  per service shows every behaviour of each. Two rescans contend for the mutex and
  let two events overtake one another.
- *probe_store*: reserved space; a download with its headers and beginning, of the
  same size and second; the whole file; and the download put back with its time. A yes
  can then be earned by one version under the stamp of another, within a stamp and by
  way of a different one. Two runs of the program are one that writes the store and one
  that trusts it.
- *thumbs*: one request more than there are slots makes somebody queue. A video that is
  edited and put back gives two versions one name and a third another.
- *discovery*: two targets make an announcement divisible.
- *subtitles*: consistency of a comparison is a matter of triples, and the thirteen
  names cover each form of the README's table, an unknown token, a foreign film, a
  binary file and a duplicate name in a subtitle folder.
- *containers*: in nine units fit a movie with a track and its handler, a segment
  with two track entries, a header list with two streams; a large size of 14 or 15
  overflows at every offset but the first ones, and an element declared one unit too
  long runs past the file. Sizes of 0 and 6 are the empty and the truncated file.
Every bound is a constant of its module: `MaxScans`, `MaxStarts`, `MaxRenewals`,
`MaxTicks`, `MaxRescans`, `MaxErrors`, `MaxPool`, `Bursts`, `Versions` and the
sizes of the sets.

Deadlock is checked in `media_library`, where something can always happen next, and
in the two runs of `Subtitles`, where the end is an action of its own. The other
systems stop by design (every request answered, the program gone, the runs used up,
the file parsed), so their configurations say `CHECK_DEADLOCK FALSE` and liveness
properties stand in.

## Fairness

- *MediaLibrary*: weak fairness of the scan and of each worker. The scan never
  waits but for its workers, and a worker's file is decided within the timeout of
  the tools. Nothing obliges anyone to start a scan.
- *Gena*: weak fairness of a `Rescan` that holds the mutex; strong fairness of
  taking it, because Go's `sync.Mutex` hands itself to a waiter that has starved
  for a millisecond. None for deliveries, subscribers or timeouts.
- *Thumbs*: weak fairness of each request's next move, which is one at a time:
  ffmpeg has a timeout, and a request waiting for a slot takes one that stays free.
  No more is needed, as a request takes a slot at most once.
- *Discovery*: weak fairness of every goroutine that can run. A read of a closed
  socket returns. Signals, ticks, packets, requests and errors need never come.
- *Containers*: weak fairness of the parser, which waits for nothing but the disk.
- *ProbeStore*, *Control*, *Subtitles*: safety only, no fairness.

## The proofs

Every theorem holds for every value of the constants that satisfies the module's
assumptions, which TLC evaluates in every run of the module. All but two are of the
form `Spec => []P`, `Spec => [][A]_v`, or both at once, or refinements;
`TracksSortOneWay` is about every list of tracks, reached or not, and
`StampIsRightUnlessPutBack` has a hypothesis of its own.

| Module | Theorem | Property |
| --- | --- | --- |
| `MediaLibrary_proofs` | `TypeCorrect` | `TypeOK` |
| | `ProbedOnce` | `EachVideoProbedOnce` |
| | `PublishedIndexIsCoherent` | `IndexCoherent` |
| | `NothingUncheckedAppears` | `OnlyCheckedVideosAppear`, an action property |
| | `IdsAreStable` | `IdsFollowTheFolder`, an action property |
| | `LibraryIsPublishedIndex` | `Spec => Abstract!Spec`, the refinement |
| | `ScansPublishIndexes` | every index published is one of `Indexes` |
| | `ScansMoveOn` | the safety half of `ScansEnd` |
| `Gena_proofs` | `TypeCorrect` | `TypeOK` |
| | `SeqIdentifiesEvent` | `SeqNamesOneEvent` |
| | `SeqOrdersUpdates` | `EventsFollowTheLibrary` |
| | `EverybodyIsTold` | `NobodyIsLeftBehind` |
| | `EveryNumberIsPushed` | `SeqHasNoGaps` |
| | `RescansGetOn` | the safety half of `RescansFinish` |
| `Control_proofs` | `SteadyListings` | `SteadyListingIsExact` |
| | `SteadyIds` | `SteadyIdPlaysItsVideo` |
| | `ControlImplementsGena` | `Spec => Feed!Spec`, a refinement |
| | `ControlPointsCatchUp` | `ListingsCatchUp` |
| | `SteadyListingsShowFolders` | a steady listing is the folder of its index |
| `ProbeStore_proofs` | `TypeCorrect` | `TypeOK` |
| | `StoredYesIsSound` | `CachedYesWasEarned` |
| | `StampIsRightUnlessPutBack` | what follows of it under `NeverPutBack` |
| | `NothingAcceptedIsForgotten` | `AcceptedFilesAreRemembered` |
| | `CrashesLeaveACompleteSave` | `StoreSurvivesCrashes` |
| `Thumbs_proofs` | `TypeCorrect` | `TypeOK` |
| | `FewRuns` | `MadeAtMostWorkersTimes` |
| | `WholePictures` | `PicturesAreWhole` |
| | `FreshPictures` | `NeverOlderThanTheStamp` |
| | `RequestsGetOn` | the safety half of `EveryRequestIsAnswered` |
| `Discovery_proofs` | `TypeCorrect` | `TypeOK` |
| | `StopEndsTheLoops` | `LoopsEndByStop` |
| | `NothingAnnouncedAfterStop` | `SilentAfterStop`, an action property |
| | `StopIsNotHeldUp` | the safety half of `InterruptEndsProgram` |
| | `ErrorsAreKept` | the safety half of `FailureEndsProgram` |
| | `SearchesAreNotDropped` | the safety half of `SearchesAreAnswered` |
| `Subtitles_proofs` | `NamedFilesAreTracks` | `EveryNamedFileIsATrack` |
| | `TracksCompare` | `ComparisonIsConsistent` |
| | `NamesDecide` | `OrderIsThatOfTheNames` |
| | `TracksSortOneWay` | a list of tracks has one stable arrangement |
| `Containers_proofs` | `TypeCorrect` | `TypeOK` |
| | `NoWalkLeavesTheFile` | `WalksStayInside` |
| | `SizesBelongTogether` | `DimensionsAreOfOneVideoTrack` |
| | `ParsingStopsAfterBoth` | `NothingIsReadAfterBoth` |
| | `NoWalkGoesBack` | `WalksMoveForward`, an action property |
| | `ParsingGetsOn` | the safety half of `ParsingEnds` |

In each module the theorems follow from one inductive invariant, `IInv`, by
`InvariantHolds == Spec => []IInv`; there is a lemma that `Init` establishes it and
one for every action, or group of actions, that could disturb it. What each adds to
the properties, and why they are not inductive without it:

- **MediaLibrary** (`TreeAssumption`, `RankAssumption`, `TitleAssumption`,
  `OptionsAssumption`). That the next published index is coherent depends on the
  builder. `WalkSound`: the nodes met are in increasing rank, each below one that
  was met, and whatever is listed and not yet met ranks above them. `PoolSound`: the
  videos met are those waiting, held, or probed, and only probed ones are refused.
  `EmptyUntilPublished`: before the first publication there is no index. The core is
  `IndexOfIsWellFormed`: whatever is refused, dropping, pruning and counting give a
  coherent index. Ids are positions in a sequence sorted by rank, so an id is one
  more than the number of entries met before. `ScansPublishIndexes` adds that the walk
  and `dropRejected` produce exactly the indexes `MediaTree` describes, which is what
  `ContentDirectory` and `Control` take the library to be (`WalkIsSorted`: a sequence
  in increasing rank is the sort of its elements).
- **Gena** (`GenaAssumption`). What a subscriber may rely on once things are quiet is
  a statement about every moment before. `NumbersAreUsed`: every number taken is that
  of an event sent, of one about to be, or of an initial event not yet made.
  `LastIsCurrent`: the last of them carries the current UpdateID, unless a rescan is
  between its scan and the notification. `PendingSound` and `SentSound` place the
  events still to be pushed after those that were; `RescansExclude` is `rescanMu`,
  with the bound on `updateID`; `SidsAreFresh` says that sids are not reused.
- **Control** (`ClientAssumption`, `FeedAssumption`, and those of `MediaTree`).
  `PagesFit`: while the listing is steady, what was received is the beginning of the
  listing of the index it began at, and the page under way was cut from that index
  unless its UpdateID is about to differ. `ListingBegan`: a listing that began at the
  current index is steady. `PublishedSound`: every index published is one of
  `Indexes`, and of those ids resolve to their objects (`Resolves`). `SortedIsASort` shows that a listing has each child once and
  in order, by counting: the number of elements before each is a bijection. With it
  `SteadyListingsShowFolders` says what a listing under one UpdateID is in terms of the
  folder, not of the code that lists it.
  `ListingsCatchUp` is put together. Control implements Gena, so `EverybodyIsTold`
  applies to its events; none of them is newer than the listing, so the listing began
  at the current index, is steady, and is exact.
- **ProbeStore** (`ProbeAssumption`, which asks for at least one file and nothing of the
  stamps). `RecordsEarned`: behind every yes in memory or on disk stands an inspection
  in a scan that took the record's stamp; what it read is no older than that scan's
  walk, and no newer than what the file holds now, or than what the walk saw until the
  file is looked at. `ScanSound` says where the scan is with each file; `Remembered`,
  that what was accepted is in the store, and among the records that `Save` keeps.
  `CachedYesWasEarned` follows, and it is all that does: a yes is from between two walks
  that took one stamp. `StampIsRightUnlessPutBack` adds that it was earned under that
  very stamp if no file ever goes back to a stamp it has left. The program does nothing
  to make this so, which is why it is a hypothesis of that theorem alone and not an
  assumption of the module.
- **Thumbs** (`ThumbsAssumption`, with at least one video; the set of requests may be
  infinite, and stamps are anything). `SlotsAccounted`: slots held plus slots free make
  `Workers`. `RunsAccounted`: the requests that have rendered a picture which was not
  lost, or are about to render it, are at most `Workers`, and hold a slot while it is not
  on the shelf; so the one that finds the shelf empty under a slot is within the bound,
  and from the first picture on nobody joins them. `InHand` and `InOrder`: what is in
  hand or on the shelf is a whole picture, and no older than the first version with the
  stamp it is named after.
- **Discovery** (`DiscoveryAssumption`). `WgCounts`: the WaitGroup is the number of
  loops that run, so `wg.Wait` returns only when they have ended. `Lifecycle` says what
  has been started and stopped at each point of `main`; `AnnouncersSound`, where each
  goroutine that announces can be; `SearchTyped`, that the search is a record.
- **Subtitles** (`SubtitlesAssumption`: no token stands for two languages, none is both
  a tag and a qualifier, a name has at least one token). `LoopInPool`: what is left is
  the end of the pool. `TracksOfTaken`: the tracks are those of the matching files
  before it, in their order, each once. `SortedAtTheEnd`: nothing is left when the
  tracks are sorted, and then none stands behind one it should precede.
  `NamedFilesMatch` is the step from names to `Matches`: a name of the README's table has
  an empty suffix or one of known tokens, and one token is enough to be recognised.
  `BeforeIsAnOrder` rests on the keys being numbers: the least place in which two
  tracks differ exists. `TracksSortOneWay` then counts: the place of a track is one more
  than the number of those that go before it.
- **Containers** (`WalksAssumption`, `Mp4Assumption`, `MatroskaAssumption`). `OwnWalks`:
  the walks on the stack are those of the format's parser. `SizesSound`: what is known
  of the track being read comes from it, and what was kept comes from one track. The
  stack is handled by lemmas on what moving on, nesting and ending a walk preserve
  (`MoveSound`, `NestSound`, `PopSound`), and one on each header that can be read
  (`BoxSound`, `ElementSound`, `ChunkSound`), where the overflow of an offset and a
  size is dealt with.

What liveness rests on is proved too. Each of the seven liveness properties has a
theorem that leaves to fairness nothing but that a step which can be taken is taken:

- `ScansMoveOn`: a natural number, `StepsLeft`, decreases with every step of a scan. It
  counts the entries not met, the videos waiting twice, those held once.
- `RescansGetOn`: nobody but the holder of `rescanMu` changes what it has left to do, its
  stages have one direction, and the events to push are finitely many and become fewer.
- `RequestsGetOn`: so have the stages of `Get`; a request queues only while a slot is
  free or held by a request that does not queue.
- `StopIsNotHeldUp`: while `stop` waits, `wg` counts a loop that has not ended, and every
  such loop has its socket or its channel closed. `ErrorsAreKept`: `errCh` holds the
  error until `main` has it. `SearchesAreNotDropped`: an answer lacks neither a target
  nor an open socket unless `stop` was called.
- `ParsingGetsOn`: for the walk of each depth, the range behind it (`Left`), five numbers
  of which the outermost that changes decreases. They are compared from the outside
  in because an element of Matroska may reach past the one around it: what a walk has
  read may then be read again by the walk around it, and a sum of the ranges would not
  decrease. `Roomy` bounds the offsets and gives each kind of walk its depth.

Only model-checked is the last step from there, the liveness properties themselves
(`ScansEnd`, `RescansFinish`, `EveryRequestIsAnswered`, `InterruptEndsProgram`,
`FailureEndsProgram`, `SearchesAreAnswered`, `ParsingEnds`): they need ENABLED and
fairness, which the prover does not reach. Every safety property that a passing run
checks has a theorem.

## Where code and words disagree

Each of the first four has a run that finds the behaviour.

| Run | Words | Code |
| --- | --- | --- |
| `rejected_unreachable` | "Rejected videos are removed before the tree is published, so nothing outside a scan sees a node with this set." (library.go:105-107) | `Library.Node` still finds them by id, so `/media/<id>` plays a refused file |
| `gena_response_order` | "The response must reach the client before the initial event" (gena.go:104) | the goroutine starts before the handler has returned, and the buffered response is flushed after |
| `content_level` | "Only `content` catches that" (README:220) | a record does not hold its level, so a yes from level container is reused at level content |
| `unrelated_subtitle` | an unknown token "makes the whole suffix unrecognised" (subs.go:50-52) | it is passed over if another token is recognised: `Alien.3.en.srt` becomes a track of `Alien.mkv` |

Others were met while reading and have no run:

- `Library.Rejected` is said to be "in browse order" (library.go:249);
  `dropRejected` collects before `sortTree`, in the order of the walk.
- `Save` drops records "because they are no longer in the library"
  (store.go:110-111); at level off nothing is consulted, and `AfterScan` saves, so
  all records go.
- A verdict is reused "only while the file's size and modification time are
  unchanged" (README:234-235), "while the file has not changed" (probe.go:158). The
  time is kept in whole seconds, so a rewrite within the second may pass unseen. And the
  stamp is the walk's, while the tools read later (probe.go:168-170): a half download
  that is stamped, replaced by a whole file while the tools look, and then put back with
  its time has a yes on record that it never earned, also at level content. The run of
  `ProbeStore` goes through both; `CachedYesWasEarned` is what holds.
- "Anything larger is treated as a parse error and dropped" (avmeta.go:32-33); the
  sides in the main header of an AVI file are not compared with `maxDimension`
  (avi.go:65-67). `RiffDims` reports them as they are.
- Parsing is to stop "as soon as both the Info and Tracks elements have been seen"
  (mkv.go:16-17); it stops when the second one has been walked, which is how
  `NothingIsReadAfterBoth` takes the words.
- `-validate-timeout` is described as "how long a single ffprobe or ffmpeg run may
  take" (main.go:283); one deadline is
  shared by ffprobe and both frames (probe.go:176). In `ProbeStore` any of the three
  may be cut short.
- `handleIndex` (web.go:139) reads the root, the statistics, the videos and the
  refusals under separate locks, so a page can mix two scans.
- When the HTTP server fails, `run` returns without `Close` (main.go:265) and no
  ssdp:byebye is sent; the README promises one on Ctrl+C only.
- "A stale thumbnail can never be served as a current one" (cache.go:48-49), a changed
  video "is given a new file rather than being served a stale picture"
  (thumb.go:104-105). The name changes when a scan takes a new stamp, not when the video
  is edited; an edit that keeps the size, within the second, keeps the name; and a video
  that is edited while ffmpeg runs, and put back with its time, is shown as it was in
  between. What does hold is `NeverOlderThanTheStamp`.
- `notifySubscribers` "pushes an event to every live subscription" (gena.go:131); it
  takes a SEQ number for each, and pushes for those of ContentDirectory only
  (gena.go:142, 153). `SeqHasNoGaps` is about those.
- `announceAlive` does not look at `closed` between packets, so ssdp:alive can
  follow ssdp:byebye for the same target until the sockets are closed
  (ssdp.go:120-132). `SilentAfterStop` is what holds.
- `Errors` is "closed when no error will be reported" (server.go:166-167); nothing
  closes it.
- "Sizes ... which would read past limit, are rejected" (mp4.go:42): a 64-bit size
  near the maximum overflows when added to the offset and passes. The box is then
  one that ends before it begins, and `Containers` shows that this does no harm.

## What is not modelled

- Text: SOAP, DIDL-Lite, XML descriptions, HTTP headers and ranges, HTML. Stateless
  rendering with nothing that interleaves.
- `charset.go`: byte tables and library conversions.
- `sockopt_*.go`, interface selection, multicast options: system calls.
- Time: durations of pauses and timeouts are events that happen or not. The
  multiplication in `parseSubscriptionTimeout` (gena.go:220) can overflow to any
  length, which `Gena` covers because a subscription may lapse at any time after it
  was granted. SEQ is a number without a limit; it wraps in the code at 2^32.
- `cache.Sweep`: only tests call it.
- In the container parsers: the two places at which a Matroska walk finds both elements
  seen (mkv.go:382 and 410) are one `Return`; decoding of numbers, the arithmetic of durations and the
  contents of a file between its headers. The search for a sibling of an element of
  unknown size is any result it can have, not the 64 MiB it is limited to.
- The version lines of ffprobe and ffmpeg, flags, the banner: for the reader of the
  terminal only.

## Plan

Done: the modules above, and a proof of every safety property of theirs.

1. BrowseMetadata and the delivery of subtitles, once their properties say more than
   that one node is looked up.
2. Joining what is proved of `MediaLibrary` and of `Control` in one specification, in
   which the steps of a scan take the place of `ScanSucceeds`; `ScansPublishIndexes` and
   `LibraryIsPublishedIndex` are the two facts that would be needed.
3. The liveness properties, with a prover for ENABLED: the measures are there.
