# Cryptagram: a TLA+ verification project

Cryptagram hides an encrypted picture inside an ordinary looking JPEG, so that it
can be put on a photo-sharing site and be revealed in the browser of somebody who
knows the password. This directory holds TLA+ models of the parts of the
repository whose behaviour is hard to test, TLC configurations that check them on
small instances, and theorems checked by TLAPS.

Paths below are relative to the repository's root (`src/` in PROJECT.json).

- [Inventory](#inventory)
- [Modules](#modules)
- [Runs](#runs)
- [Disagreements found](#disagreements-found)
- [Proofs](#proofs)
- [What is not modelled](#what-is-not-modelled)
- [Plan](#plan)

## Inventory

| component | where | state it keeps | operations |
|---|---|---|---|
| Queue | `experimental/lib/src/queue.h` | a deque, a counter of unfinished tasks, a mutex, condition variables | put, get (non-blocking, blocking, timed), task_done, join |
| In-memory experiment | `in_memory_experiment.cc`, `aesthete_thread.cc` | threads, `done_` flags, chunks of matrices | start, generate, run, join, stop, destroy |
| Error correction | `reed_solomon/`, `ecc_message.cc`, `ecc_experiment.cc`, `ecc_experiment_main.cc` | per thread a message, its parity and an image; shared by all threads a list of control structures and its mutex | create and free a codec, encode, embed, compress, read back, decode |
| Block matrices | `aesthete.cc`, `array.cc`, `discretizations.h`, `experiment.cc` | packed bits, levels, pixels | pack, unpack, fill, average, find the closest level, count errors |
| Auto-decrypt queue | `closure/src/cryptagram/content.js`, `loader.js`, `media/` | loaders and their states, progress dialog, timers, retry counters | request, poll the site, check the queue, download, decode, cancel |
| Reveal and password storage | `content.js`, `extension.js`, `storage.js`, `media/media.js`, `container/`, `popup.js` | the extension's localStorage, its copy in the page, one callback, two override flags, the dialog, containers | decrypt one image, enter a password, store it, change a setting, revert |
| Bacchant codec | `protocols/bacchant/codec.js`, `codec.js`, `decoder.js`, `packages/core`, `core-rust` | the decoder's row, counters, length and text | encode, test, getChunk, decode |
| Encoder page | `demo.js`, `encoder.js`, `sizereducer.js` | per encoder its files, images and listeners; of the page one zip file, one list, one set of frames, two dialogs | select, load, start, reduce, encode, collect, download, close |
| Other codecs | `protocols/aesthete`, `chequer`, `experimental`, `packages/core/src/aesthete.ts` | as bacchant | as bacchant |
| Ciphers | `cipher.js`, `packages/core/src/crypto.ts`, `experimental/lib/src/crypto.cc` | none | encrypt, decrypt |
| MV3 extension | `packages/extension` | settings, messages in flight | decode, answer, toast |
| Desktop GUI | `desktop/` | threads with shared fields | encode and decode batches |
| Android, iOS | `android/`, `ios/` | chains of asynchronous encodings | encode, share, decrypt |
| ThreadsafeQueue | `threadsafe_queue.h` | a ring buffer | push, pop at random |

How they interact. The extension (`extension.js`) sends messages with a copy of
its storage to the content script (`content.js`), which downloads images through
loaders, decodes them with a decoder and a codec, shows the result through a
container, and answers a message through the callback that came with it; the
answer makes the extension store a password. The encoder page (`demo.js`) makes an
encoder for each selection of files and listens to its events. All of this is
event-driven JavaScript: one handler runs at a time, but between the handlers of one
operation any other handler may run. The content script keeps one callback, one copy
of the storage and one pair of override flags for all its operations, and the encoder
page one zip file and one list for all its encoders. The programs of the
experiments are C++ threads, around a `Queue` in one of them and around a
list of Reed-Solomon control structures in the other. The codecs of `packages/core`
and `core-rust` are stateless and share the image format with the closure library.

What is hard about each part, and what makes it correct:

- *Queue.* Awake, sleeping, non-blocking and timed getters race for one object and
  one signal; joiners sleep on a counter. Correct: an object has one owner, the
  counter is exact, nobody sleeps beside work or beside a finished pool.
- *In-memory experiment.* `join()` may return between two chunks, `done_` is read
  without the mutex. Correct: every matrix is in one place, and the program ends.
- *Error correction.* The decoder is a long computation over finite-field tables
  whose intermediate polynomials nobody sees; one object serves all iterations; all
  threads share one control structure whose counter decides when it is freed, behind
  a mutex that is initialized again and again. Correct: up to half as many errors as
  there are parity symbols are corrected and counted, and nobody uses freed memory.
- *Block matrices.* Three-bit cells in bytes, a search in a descending set, means of
  four pixels. Correct: what is packed comes out, changes smaller than half the
  distance of two levels are not seen.
- *Auto-decrypt.* Several chains of timers run the same function over one list,
  downloads fail or come in after Cancel, the tab changes its page while loaders
  run. Correct: bounded downloads, no forgotten loader, a bar that never goes
  back, a queue that becomes free.
- *Reveal.* Shared fields are read long after they were written, and the page is asked
  for its album when a decryption ends, by which time the site may show another one.
  Correct: what is stored is right, wanted, and not lost.
- *Bacchant.* Encoder and decoders compute the same layout in different ways, in
  integer arithmetic after a square root, with a length in front that may be
  misread. Correct: what was written is read, and decoding ends.
- *Encoder page.* An encoder goes on after its dialog was closed, files may be
  unreadable, the zip file has a limit, exceptions end handlers half way. Correct: every
  selected image is listed once as saved or as skipped, a download holds what it
  lists, a batch that was started ends.

`PROJECT.json` lists under `hazards` each such point at its line, with the
properties that watch it or the reason why none does.

## Modules

| module | models | state and actions |
|---|---|---|
| `TaskPool` | what a task queue promises: a FIFO, one taker per task, a `join()` that returns only when all is done | `pending`, `taken`, `joining`; no threads' program counters, no condition variables |
| `Queue` | `queue.h` | `queue_`, `unfinished_tasks_`, per thread a `phase` and a `deadline`, and the objects owned by callers. One action is one stretch of a call between taking the mutex and giving it up |
| `InMemoryExperiment` | `main()`, `Generator::Run`, `AestheteRunner::Run`, composed with `Queue` (`Q == INSTANCE Queue`) | every thread has a `pc`; its queue operations are the actions of `Queue` |
| `ReedSolomon` | `reed_solomon.c`, `encode_rs.h`, `decode_rs.h` as `RsCodec` calls them | operators: the tables of the field, the generator polynomial, encoding, syndromes, one step of Berlekamp-Massey, roots and corrections |
| `BlockMatrix` | packing, levels, filling and averaging of blocks | operators |
| `EccExperiment` | `EccExperiment::Run`, over the two modules above | message, parity, image, received symbols, the decoder's register; one action per stage of an iteration, and one per step of Berlekamp-Massey |
| `RsControl` | the threads of `ecc_experiment_main.cc`, `init_rs()`, `free_rs()`, the mutex | per thread a `pc` and a structure; the list, its counters, what was freed |
| `AutoDecrypt` | the `autoDecrypt` message, `checkIfReady`, `autoDecrypt`, `checkQueue`, loaders, Cancel | one action per event handler |
| `Reveal` | the `decryptURL` message, the dialog, `decryptByURL`, the answer with the album's name, settings, revert | `page` and what it shows, the script's shared fields, `decodes` under way; one action per event handler, and `Navigate` for a site that puts up another page |
| `Bacchant` | `encode`, `getCodec`, `getChunk`, `processImage` of closure; `decode` of `packages/core` and `core-rust` | an image is the text in its rows; one action per timer |
| `Encoder` | `encryptFiles`, the dialogs, `queueFiles`, `startEncoding`, the events of `encoder.js` and their two listeners | per batch the encoder's lists and stage; the page's zip, list, frames; one action per event handler |
| `QueueProofs`, `InMemoryExperimentProofs`, `EccProofs`, `RsControlProofs`, `AutoDecryptProofs`, `RevealProofs`, `BacchantProofs`, `EncoderProofs` | theorems | |
| `MC*` | small instances for TLC | |

Each module's comments name the code of its definitions; the `map` of
`PROJECT.json` gives their lines. Definitions marked "Plausible bug" are not used
by the specifications: each replaces the definition that follows it when the
sensitivity of a property is tried out (`mutants` in `PROJECT.json`).

Choices worth knowing:

- *Queue.* The mutex makes the stretches of a call atomic, so it is not a variable.
  A signal wakes any one sleeper, and a sleeper may also wake without a signal.
  The two wait loops on `not_full_` in `put()` are unreachable and left out.
- *In-memory experiment.* `done_` is a data race; a one-byte read gives the old or
  the new value, which is what the interleavings of `SetDone` and
  `RunnerCheckDone` give.
- *Reed-Solomon.* A symbol is the set of its bits that are one, so that addition in
  the field is symmetric difference. Field and number of parity symbols are
  constants; erasures, padding and fields other than the canonical have no caller.
- *Blocks and images.* Means are kept as sums of four pixels. JPEG compression is
  external: it changes the four pixels of the cells of at most `MaxNoisy` areas by one
  of `Patterns`, anywhere in data or parity. The build is the one of `Makefile.am`,
  without `NDEBUG`: `ecc_experiment.cc:96` does the compression inside `assert()`.
- *Control structures.* The mutex is the word of the platform's (0 free, 1 held, 2
  held and waited for). To initialize a locked mutex is undefined in POSIX; here it
  sets the word to 0, and `overlap`, a history variable, becomes true. The order of the
  list is left out, and an address is not used again after it was freed, so that a use
  of freed memory can be seen.
- *Auto-decrypt.* A loader is the batch that made it and its photo, so that loaders
  of earlier batches, which may still download, are distinct from new ones. Bytes,
  codecs and ciphers are left out: a download arrives or fails, a decoder opens the
  image, finds the password wrong, or knows no codec (and then never calls back).
  `Sticky` says whether `supportsAutodecrypt` stays true once it was, as on Google+
  (`googleplus.js:41-56`), or is decided anew on every page, as on Facebook.
- *Reveal.* The images of the tab are those of its `page`; a page has an album, or none,
  or `getAlbumName()` throws there. These sites change their pages without loading them:
  `Navigate` replaces `document.URL` and the images under the script, which is not told.
  `Response` asks the page that is there when the decryption ends (`content.js:216`), and
  `AlbumNames` allows for the exception when `media.state` was left wrong. A click and
  the wait for the site are one step: `ClickDecrypt` when the site gets ready,
  `ClickInVain` when it does not or the album's name cannot be had. A decryption is an
  entry of `decodes` that ends at any later time; its `attached` field says whether its
  image is still in the page. The fields `save`, `album` and `from`, which are what the
  dialog's boxes said at OK and the page of the click, are read by properties only, and
  so is `left` (a page was left while an image of it was being decrypted). `overlap` is
  chosen at the start: when FALSE, no message and no other page comes between a click
  and the end of its decryption.
- *Bacchant.* A symbol is a gray block, a character two neighbouring blocks. The
  model places symbols with the encoder's formula and reads rows in the decoders'
  loop order, so the agreement of the two is checked and not assumed. Random fill
  and the rows of bytes below an image read as `Garbage`. What JPEG noise makes
  of the length is a pair: the number its characters say, and the place of the first
  that is no digit (9 if there is none). `parseInt()` gives the number before that place,
  NaN when the place is the first; `parse::<usize>()` refuses it. A plus sign in
  front, which both accept, is left out. All three decoders test the header first;
  `encoder` says who painted it, because `core-rust` paints one that none of them
  knows (`HeaderReads`).
- *Encoder.* An encoded image is its file, with a new name and a size. An exception
  ends its handler and leaves what was assigned before it. `selected`, `started`,
  `closed`, `downloads` and `intruded` (an encoder whose dialog was closed has added an
  image to the zip of the next batch) are history, for the properties. A size reduction
  ends at some later time.

## Runs

`tlc -config X.cfg MCModule` in this directory; the names are those of
`PROJECT.json`.

| run | instance | what it shows |
|---|---|---|
| `queue` | 4 threads, 2 objects, `MaxSize` 1 | exact counter, no lost wakeup for getters (`NoLostWakeup`) and joiners (`NoForgottenJoiner`), `ImplementsTaskPool`, and under fairness `SleeperServed` |
| `experiment` | 2 generators, 2 runners, 5 matrices in chunks of 2 | every matrix in one place; runners stop last; the program ends |
| `ecc` | the field of 16 elements, 15 symbols with 4 of parity, two halves in 5 x 2 blocks of 2 x 2 cells of 2 x 2 pixels; 2 iterations, 2 pairs of messages, 6 areas of which 3 may be noisy, 3 kinds of noise | changes below half a level are not seen (`ToleratedIsRead`); 2 wrong symbols in a half are corrected and counted, in every iteration (`CorrectsUpToHalf`); the register of Berlekamp-Massey generates the syndromes after every step (`RegisterPredicts`); however many symbols are wrong, an answer with a locator of full degree is a codeword (`FullDegreeIsCodeword`) |
| `rs_threads` | 3 threads of one iteration, 3 addresses | as long as the mutex was not initialized while in use: one structure for all, an exact counter, nobody holds freed memory, the program ends and everything is freed |
| `auto_decrypt` | album of 3 photos (2 with a password), a photo page, another page; 2 requests, 1 failed download, 1 download at a time, 2 tries | of no batch do more than `maxLoading` requests run, those of canceled loaders included (`DownloadsBounded`); nothing waiting or loading when the queue is emptied, a bar that never goes back; the queue becomes free unless a failed download of it was not canceled, polling stops |
| `reveal` | 2 photos with different passwords; 3 pages (one of an album with both photos, one of another album and one on which `getAlbumName()` throws, each with the second photo); 2 messages, with and without overlap | passwords stored for photos fit, and those for albums fit unless a page was left during a decryption (`StoredPasswordsFit`); without overlap the boxes decide what is stored, under which names, and revert restores |
| `bacchant` | payloads of 65 to 105 characters, 10 shapes from 1:2 to 20:1, two of them so flat that the message ends beside the header; 6 ways to read the length (exact, a letter first, a letter last, smaller, 0, too large); images painted by closure and by `core-rust`; chunks of 4 rows | the layout has room and no collision, and its fill covers symbols exactly when the message ends beside the header, and then the last four; the header is recognised and the chunked decoder collects the payload in order (`ReadsPrefix`), as far as the length says (`KeepsUpToLength`), and ends; the one-shot decoders agree on closure's images and refuse `core-rust`'s; 17 steps of noise are tolerated |
| `encoder` | 7 files (two named alike, one as large as the zip may be, one larger, one unreadable, one no image), 8 selections of them, 2 batches | a download accounts for every selected image and holds what it lists, unless another encoder interfered (`AccountsForAll`, `HoldsWhatIsListed`); a started batch is offered for download, or its dialog was closed (`BatchEnds`) |
| `experiment_leftover`, `reveal_boxes`, `bacchant_narrow`, `rs_list` | as above, smaller | each violates one property, see the next section |

Why the bounds are enough. *Queue*: two sleepers, one thread that wakes them and one
that gets in between are needed for a lost wakeup, and two objects for a queue
above its size; the theorems below hold for every number. *Experiment*: two
generators whose chunks interleave, three chunks each, the last one short, and two
runners of which one may stop early. *Ecc*: with four symbols of parity the decoder
meets no error, one, two, and more than it can correct, in data and in parity; a
cell's three bits lie in one symbol or in two; a second iteration starts from what the
first one left. The program's code (255 symbols, 32 of parity) goes through the same
operators with other constants. *Control structures*: one thread that holds, one that
waits, one that comes in between. *Auto-decrypt*: an album of three is the
smallest that is queued; with one download at a time the others wait; two requests
give two chains of timers and a batch that follows a canceled one. *Reveal*: the
shared fields are disturbed by one other message; two photos tell whose they were, and
three pages whose album it is when a decryption ends.
*Bacchant*: 65 is the shortest encrypted payload (32 characters of MD5, 22 of the
initialization vector, 11 of the salt); the lengths cross 99/100, and the shapes
give images narrower and wider than the 40 pixels at which the decoder's rule for
the length begins to hold, with payloads that end in every kind of row position,
beside the header too.
*Encoder*: a batch is disturbed by the one before it, and each exceptional file
comes before and after ordinary ones.

Deadlock is checked for `Queue` and `InMemoryExperiment` (whose `Exit` step stands for
the process being gone). It is not checked for the others, which may really stop: a
tab or a page in which nobody does anything more, a decoding or a program that is over
(`EndsClean` shows that the threads of `RsControl` stop only at their end).

Fairness. `Queue`: a thread inside a call goes on (the mutex is given up at every
wait, and the action it is about to take stays enabled), and deadlines pass; nobody
has to call `put()` or to wake spuriously. `InMemoryExperiment`, `RsControl`: every
thread that can run is run, weakly; nobody is promised the mutex. `AutoDecrypt`: the
timer of `checkQueue()` fires, and while downloads or decodings are under way one of
them goes on; nothing is assumed of the user or the site. `Bacchant`: the timer of
`processImage` fires. `Encoder`: the browser calls back for each encoder; nothing
is assumed of the user. `Reveal` and `EccExperiment` have no fairness and no liveness
property: a user may leave a dialog open, and the experiment is one thread's loop.

## Disagreements found

Each is the subject of a run that finds a counterexample; PROJECT.json quotes the
lines on both sides.

1. `experiment_leftover`: a runner can find the queue empty, and read `done_` only
   after the last chunk was put; the chunk stays in the queue and the destructor's
   `CHECK_EQ(qsize(), 0)` fails.
2. `reveal_boxes`: a message that comes before a decryption ends replaces the callback
   or resets the override flags, so a password is stored or not whatever its
   dialog's boxes said (`content.js:96`, `content.js:219`).
3. `bacchant_narrow`: images narrower than 40 pixels cannot be read back by closure
   nor by `core-rust`, because both look for the length in the first row only.
4. `rs_list`: every `init_rs()` initializes `rslistlock` anew, so that two threads can
   be between locking and unlocking it (`reed_solomon.c:220`).

Also seen while modelling, without a run of its own:

- A `get()` with a timeout waits without a time limit (`queue.h:159`, against line 135);
  its deadline is noticed only when another thread puts.
- A generator's `put()` never tests the queue's size, so `queue_size` bounds nothing
  (`queue.h:86`).
- An `autoDecrypt` request that gave up makes the next one for its page look redundant
  (`content.js:122`).
- A failed download leaves its loader `LOADING`, and the queue is in use until the user
  cancels (`loader.js:148`, against `content.js:81` and `:351`). `QueueFreed` says that
  nothing else can hold the queue up, and that Cancel is enough.
- Cancel does not abort requests, and the next batch does not count them: together two
  batches may have more than `maxLoading` running. `DownloadsBounded` is about each one.
- The album's name is asked of the page that is there when a decryption ends
  (`content.js:216`). When the site has moved on meanwhile, the password is stored under
  an album it need not open. `StoredPasswordsFit` is about behaviours in which no page is
  left during a decryption as far as albums go, and about all as far as photos go.
- When two decryptions of one image overlap, the second one's container takes the
  decrypted data for what the image showed before, and reverting shows them again
  (`media.js:57`). `RevertRestores` is about behaviours without overlap.
- A letter in the second to eighth digit of the length cuts the payload off, although
  there are more characters to read (`codec.js:390`); `KeepsUpToLength` says what is kept.
- No decoder, its own included, recognises an image of `core-rust`'s `encode()`, which
  paints the header one block per character (`bacchant.rs:112`, against line 40).
  `OneShotReads` states that both one-shot decoders refuse these images.
- When a message ends beside the header, as in an image ten times as wide as high, the
  random fill starts four blocks too early and covers its last symbols (`codec.js:171`).
  `LayoutSound` states which ones, and two shapes of run `bacchant` are that flat.
- The Reed-Solomon decoder checks that it found as many roots as the locator's degree,
  and not that the degree is the register's length: with more errors than it can correct
  it may answer with data of no codeword instead of `-EBADMSG` (`decode_rs.h:200`,
  against `reed_solomon.c:339`). `FullDegreeIsCodeword` says what does hold.
- The test of the field's polynomial (`reed_solomon.c:136`) looks only at where the powers
  end, which is necessary and not sufficient for it to be primitive.
- `FillMatrixFromBlock()` does not multiply the column by the three channels
  (`array.cc:141`); what it returns is never read.
- `CHECK_LE` lets the index 8 through, one more than there are levels (`aesthete.cc:57`).
- When one image was saved and the next one did not fit, the data offered under the
  first one's name are those of the second; when the first one is too large already,
  the list is empty and nothing is said to be skipped (`demo.js:296`, `:298`).
- `a.png` and `a.jpg` have the same name in the zip file (`encoder.js:289`).
- `ThreadsafeQueue`, which no program includes, never takes the newest of several
  objects (`threadsafe_queue.h:107`).

## Proofs

`tlapm M.tla` checks every leaf of the eight proof modules, with SMT, Zenon and, for the
temporal steps, LS4. Each theorem holds for all values of the constants that satisfy
the named assumption of its module.

| module | theorem | statement |
|---|---|---|
| `QueueProofs` | `TypeCorrect` | `SafeSpec => []TypeOK` |
| | `OneOwnerHolds` | no object is twice in the queue, or both queued and owned |
| | `CounterHolds` | `unfinished_tasks = Len(queue) + Cardinality(taken)` |
| | `TaskDoneSafe` | the owner of a task never meets the `LOG(FATAL)` of `task_done()` |
| | `NoLostWakeupHolds` | while somebody sleeps in `get()`, the awake getters are at least as many as the objects |
| | `NoForgottenJoinerHolds` | nobody sleeps in `join()` when the counter is zero |
| | `Refinement` | `SafeSpec => ImplementsTaskPool` |
| `InMemoryExperimentProofs` | `ExperimentTypeCorrect`, `RunnersStopLastHolds`, `EveryMatrixOnceHolds` | the invariants of run `experiment` |
| `RsControlProofs` | `TypeCorrect`, `UsersHold`, `HoldersAliveHolds` | the invariants of run `rs_threads` |
| | `ListIsProtectedHolds` | one thread in the lock, as long as `~overlap`: what run `rs_list` refutes holds but for the second initialization |
| `AutoDecryptProofs` | `TypeCorrect`, `DownloadsBoundedHolds` | two invariants of run `auto_decrypt` |
| | `NothingForgottenHolds` | the queue is emptied only when nothing in it waits or downloads |
| | `BarNeverGoesBackHolds` | while the bar stays open, the share it shows never goes down |
| `RevealProofs` | `TypeCorrect`, `StoredPasswordsFitHolds` | the invariants of run `reveal` |
| | `BoxesObeyedHolds`, `RevertRestoresHolds` | its two action properties |
| `EccProofs` | `IntsRoundTrip`, `BitsRoundTrip`, `StringRoundTrip` | packing and unpacking a block gives back what went in, for every size of block and of byte |
| | `NearestLevel` | `FindClosest()` answers a level when the sum of four pixels has moved by -63 to 64 from it |
| | `PaintedIsRead` | both together: bytes, to levels, to disturbed sums, to levels, to the same bytes |
| | `CountedIsMisread` | `Experiment::Run()` counts as an error exactly what `FindClosest()` misreads, two border cases excepted |
| | `ToleratedIsReadHolds` | a symbol whose cells have each moved by -63 to 64 is read as it was painted, through packing, pixels, means, nearest levels and unpacking, whatever happens to the others |
| | `RegisterPredictsHolds` | in every field, after every step, the register of Berlekamp-Massey generates the syndromes so far |
| | `CorrectsUpToHalfHolds` | up to `nroots/2` wrong symbols of a half, in the data or the parity, are all corrected and counted |
| | `FullDegreeIsCodewordHolds` | whatever was received, an answer with a locator of full degree is a codeword, at the distance it says |
| `EncoderProofs` | `TypeCorrect`, `AccountsForAllHolds`, `HoldsWhatIsListedHolds` | the invariants of run `encoder` |
| `BacchantProofs` | `TypeCorrect`, `LayoutSoundHolds` | types; the picture has room for every symbol, and none on another or on the header; under the random fill are none when the message goes on below the header, and exactly the last four (as far as they are in one row) when it ends beside it |
| | `ReadsPrefixHolds` | below the header and from 40 pixels of width on: at every timer the closure decoder has a prefix of the payload, in the end all of it, when the length is read correctly |
| | `KeepsUpToLengthHolds` | under the same conditions but for the last: as much of the payload is kept as the length that was read says, a letter in any place included |
| | `OneShotReadsHolds` | the decoders of `packages/core` and `core-rust` read what closure encodes below the header, `core-rust` from 40 pixels on, and answer that the header is invalid to what `core-rust` paints |
| | `NoiseHolds` | `Spec => []NoiseTolerated`: a uniform change of up to 17 steps |
| | `ColourNoise` | a block is read as its symbol when each channel of each of its four pixels changes on its own by up to 17 steps |

The arguments.

*Queue.* The counter is exact only if an object that is taken was not taken
already, and one that is put is not yet counted, so the inductive invariant of the
data is `DataInv`: `TypeOK`, `OneOwner` and `CounterIsExact` together. Its three
parts have a lemma each (`TypeStep`, `OneOwnerStep`, `CounterStep`), on
`AppendFacts` and `TailFacts` about the sequence. `TaskDoneSafe` follows from it.
The sleepers need no data invariant but types: `SleepInv` adds `NoLostWakeup`, whose
step (`SleeperStep`) follows the number of awake getters through each action with
`AwakeCount`: a put adds one object and, if anybody sleeps, one awake getter; a get
that takes removes one of both; a getter goes to sleep only beside an empty queue.
That is why one signal per put is enough although others may take the object first.
`JoinerStep` rests on the broadcast. The refinement maps `joining` to the threads in
either phase of `join()`; `PoolStep` needs `DataInv`, because a join returns when the
counter is zero and the pool wants an empty queue with nothing taken
(`ZeroMeansIdle`).

*In-memory experiment.* `Inv` is `TypeOK`, `Places` and `StopOrder`: a runner that left
its loop was told to, runners are told only after all generators were joined, and
a generator that ended has put everything. `RunnersStopLast` is one
consequence. `EveryMatrixOnce` counts chunks per matrix, which no step preserves as it
stands; `OnePlace` and `Partition` say the same with quantifiers: a chunk is in one
place, every matrix made has a chunk, and two chunks with a common matrix are equal.
`Partition` needs that no chunk reaches beyond what its generator has made, so that the
next chunk is new. The lemmas `PutPieces`, `GetPieces` and `DonePieces` follow a chunk
into the queue, out of it and through a runner.

*Control structures.* `Exclusive` (one thread in the lock, none when the word is 0) is
inductive as long as `~overlap`. Only then is what a thread has read of the list and of
`users` still true when it writes: `Shared` states this for each place inside the
lock, together with `UsersAreHolders`. `QuietStep` disposes of the steps that leave
the table alone, `SharedStepInLock` takes the others one by one, `HoldersGain` and
`HoldersLose` count.

*Auto-decrypt.* `PlacesKept` counts the loaders of all batches that are `LOADING`, but `checkQueue()` counts
those in the queue. `Queueing` closes the gap: a loader that waits or downloads is in the
queue. It survives because a new queue is made only when the old one is empty, and the old
one is emptied only when `percent` is 100, which (`CompleteIsDone`) leaves none of its
loaders waiting or downloading; that is `NothingForgotten` as well. `StartedFew` and
`LoadingCounted` bound what one call starts and has running, on `FirstFew`: of a set of
positions, fewer than `m` others stand before at most `m` of them. `DownloadsBounded` counts
requests, which go on when Cancel makes their loaders `CANCELED` and leaves their places to
others. `Orderly` says that beside such a loader none of its batch is waiting, as Cancel takes
all of them: so of no batch does anything start after its cancelation, and as long as it was
not canceled, its requests are those of loaders that are `LOADING` (`Slow`, `SlowIsBounded`).
Requests of two batches may add up to more, and no such bound is claimed. The counters need
`Chains`: a request begins one chain of timers, and once one chain has used up the tries,
each other one tries once more at most. That there is a page order for every batch
(`InPageOrder` is not empty) is not proved; the runs exercise it. `BarNeverGoesBack` compares
two states, and the bar follows the queue only at the next timer. `BarInv` says what the bar
shows of the queue in between: its share is at most that of the loaders that are done now
(`bar[1] * Total <= Done * bar[2]`), so the next share is no smaller. It survives because a
loader that is loaded or cancelled has left the total (`NoMoreCounted`), and when it is done it
adds one to both numbers, of which the first is not the larger one (`OneMoreDone`).

*Reveal.* `PhotosFit` adds to what is stored for photos that the answers on their way fit,
which is inductive with types alone: only a decryption that succeeded answers, with the
password that opened its photo, through whatever callback. `AlbumsFit` needs `~left`: then the
page that is asked when a decryption ends still has its photo (`HereStep`), and what it names is
an album of that photo (`AnswerFits`). The two action properties need `Boxes` and `Shown`, as
long as `~overlap`: the dialog, or the decryption a click began, is alone and on the page of
the click, its message still waits for an answer, and the shared flags and settings say
what its boxes said (`Agrees`); a photo under decryption is shown encrypted and is there
once. Each handler that replaces a shared field is shown to do so when nobody else
relies on it (`ClickBoxes`, `ToggleSaveBoxes`, `ToggleAlbumBoxes`, `OKBoxes`).

*Blocks.* `BlockCells` and `BitOfCell` relate a position in the bitset to its cell; a
number below 8 is the sum of its bits (`IndexFromBits`, `BitsOfSum`); `UpperAbove` and
`UpperBelow` say where `upper_bound()` of the descending set lands on either side of a
level. `CountedIsFar` shows that cutting and the signed char never fold a large
difference into the range of small ones.

*From blocks to images.* `Carried` says what the experiment relies on from one stage to the
next: the image shows the bytes until they change (`Painted`), the symbols are those of
the compressed image (`ReadBack`). `PixelPlace` and `PlaceOfPixel` are the arithmetic of `Fill()`
and of averaging: the pixel of a cell of a block, and back. With `NearestLevel` a cell within
reach is read as its level (`SymbolIsRead`), and `CellsOf` names the cells of a symbol, of which
some may lie in its neighbours as well.

*The field.* A symbol is a set of bits. `ShiftLeft` is linear, so that exclusive or commutes with
multiplication by alpha; `ModnnIs` shows that the loop of `rs_modnn()` computes the remainder.
`Primitive`, an assumption on the constants that the code tests in part, says that the powers below `nn`
are different; as there are `nn` symbols besides zero, and no power is zero, each symbol has an
index (`IndexFacts`). The laws of a field follow from adding exponents (`Distributive`,
`Associative`, `Cancel`).

*Berlekamp-Massey.* `Conv` is the coefficient that the register is to make zero. After `n` steps
(`Locates`) the locator makes it zero from the register's length on (`Predicts`). Alone this is not
inductive, as the next change uses the correction polynomial: `Corrects` says that it
makes the coefficients before the last zero and the last one `{0}`, the symbol one. So the discrepancy
times the correction polynomial is what is wrong at the next syndrome and nothing before it
(`CorrectedStep`), and when the length changes the old locator divided by the discrepancy takes
that role (`ScaledStep`). `ConvOfSum`, `ConvOfMultiple` and `ConvOfShift` say what the coefficient
does under each operation. `r` is the step, so that the invariant `Locating` of the decoder relates
it to the syndromes of the half that is decoded. It assumes nothing of how many symbols are wrong.

*Correction.* A word is a polynomial whose syndromes are its values (`At`) at the first powers of
alpha: Horner's rule computes them (`SyndromeIsValue`), the parity is the remainder of the
data at the roots of the generator (`RemainderIs`), so a codeword has none (`CodewordRoots`),
and a received word has those of its errors (`SyndromesAre`). Everything then follows from
`Trace`: a word with at most `v` coefficients other than zero and `v` zero values in a row is zero. By
`ConvIs` the coefficients that the register makes zero are the values of another
word, the errors each times the locator's value at their place (`Filtered`). So a register that
predicts as many syndromes as there are errors has all their places for roots (`AllFiltered`), and
from then on every syndrome: its discrepancy is zero. That is why a step never makes the
register longer than any errors with these syndromes are many (`StepShort`, `Shortest`), the part
of the invariant `Deciding` that `RegisterPredicts` lacks. After the last step, with at most `nroots/2` errors, the locator's roots
are their places and no others (`Places`), because a polynomial has no more roots than its degree
(`RootBound`, on the division `Quot`). At a place's root the error evaluator has the value
of that error times the quotient's (`EvaluatorIs`), and so has the formal derivative without the
error (`DerivativeIs`); Forney's formula divides the two (`ForneyIs`, `ErrorIs`).

*However many symbols are wrong.* What the decoder takes away is a word too, Forney's formula at
the locator's roots. As `ForneyIs` asks nothing of the errors, this word's evaluator has at every
root the value of the evaluator that the decoder used. Both have a lower degree than there are
roots, so they are the same, and with them the coefficients that the register does not make zero;
a register predicts one sequence of syndromes only (`SameRegister`), so this word has the
syndromes received (`FullErrors`). None of its symbols at the roots is zero, or it would be
fewer errors than the register is long, against `Shortest` (`FullPlaces`). Taking it away leaves a
word without syndromes (`ClearedWord`), and such a word is the codeword of its own data, by `Trace`
on the difference of the parities (`OnlyCodeword`). This is where the full degree is needed: with
a lower one the evaluator says nothing of the syndromes between the degree and the length.

Recursive functions (`power`, `partial`, `encode_rs8`, Horner's rule) are shown to exist
(`Iterate`) before their values are used; sums are followed term by term (`SumNext`).
Induction is that on a set of numbers (`Everything`).

*Encoder.* The parts of a batch's selection move between lists: until OK the images that
are still loading and those that were previewed (`Loading`), after OK the images in the list
and the zip file, which are the first of the batch, and the others, which wait in the encoder
(`Collecting`). Both hold only as long as no closed encoder has added to the zip file
(`intruded`), which is also the condition of the properties. `Stages` says which of the lists
can be in use at each stage. What was downloaded is frozen: `Offered` is the property itself,
for every batch so far, and `FullOffer` and `LastOffer` derive it of the zip file that is
offered because it is full, and because the batch has ended.

*Bacchant.* Layout: `Index` is the inverse of `Pos` on the blocks beside and below the
header, so that no two symbols meet (`PosInjective`); `ShapeFits` derives from the square
roots of `Columns` and `Rows` that the picture has as many blocks as symbols (`Fits`), and
`EnoughRows` that the last one is in the picture. Reading: `Start(cols, row)` is the first
character of a row, and the decoders' loops over the rows from `a` to `b` give the characters
from `Start(cols, a)` to `Start(cols, b + 1)` and garbage behind the last (`TextFacts`). A character
is there to be read (`Legible`) only if the message goes on below the header; beside it the
fill begins too early, and `FilledBeside` says what it covers. `HeaderFound` and `HeaderOfRust`
say which headers are recognised. The invariant of the timers is then `count + 8 = Start(cols, y)`
until the length is reached, and that no more is taken than the length says, but one
(`Collected`), and that the decoder stops at the length or below the picture (`Stopping`);
`AllCollected` draws from them what is kept in the end.
Induction over rows is by least counterexample (`LeastNumber`): the recursive function is
shown to exist up to each row, and then to be the text. Noise: `BinOfLevel` splits on the
eight levels and leaves linear arithmetic, `LumWithin` bounds the weighted sum of one pixel.
TLC checks the uniform case only; 18 steps already fail (level 36 lies 0.43 below the middle
of its bin). The theorems assume that a length has eight digits at most and `ShapeAssumption`: the image
is wider than the header. With 65 characters, the least that a cipher makes, that is so of images
up to ten times as high as wide. That the message goes on below the header (`BelowHeader`) is
no assumption but a condition of `ReadsPrefix`, `KeepsUpToLength` and `OneShotReads`; with 65
characters it holds of images up to nine times as wide as high.

Only model-checked: all liveness, which is outside the prover's reach, like `ENABLED`. Every
safety invariant and every action property of a passing run is a theorem.

## What is not modelled

`PROJECT.json` lists every component with its reason. In short: ciphers and JPEG
(numeric code; here a password opens an image or not, and noise is a bounded
change), DOM searches and URL patterns of the sites, the remote log, the earlier
extensions and sites, the clients for Android and iOS, the other codecs (the same
skeleton as `Bacchant` with other blocks), `ThreadsafeQueue` (which no program uses).
Most of the repository's lines are vendored: Crypto++, googletest, Chromium's `base`,
the Closure library. Modelled partly: the site adapters, of which only the decisions
that steer `AutoDecrypt` and `Reveal` are kept.

In the modelled parts, left out: `qsize()`, `empty()` and `full()` of the queue, which
only read; negative timeouts, which have no caller; erasures in the Reed-Solomon
decoder, which `RsCodec` never passes; the matrices of levels that `EccExperiment`
computes before compression and never reads, and the file format of the matrices; the
size estimates `dimensions()` and `maxBase64Values()` of the codec, which the decoders do
not use; the encoders of `packages/core` and `core-rust` except for their headers (their
layout is that of closure, in an image whose size the caller chooses); in the encoder
page the loop that reduces an image, the rotation of JPEGs, thumbnails, and the switch to
the decoder when the first file is named `cryptagram.jpg`.

## Plan

Done, in this order: `TaskPool`, `Queue` and `InMemoryExperiment` with the refinement and
its proof; `AutoDecrypt` and `Reveal`; `Bacchant`; `BlockMatrix`, `ReedSolomon` and
`EccExperiment`; `RsControl`; `Encoder`; the proofs of `InMemoryExperiment`, `RsControl`,
`BlockMatrix`, `Reveal` and `AutoDecrypt`; then those of `Encoder`, of the layout and the
decoders of `Bacchant`, and of the bar of `AutoDecrypt`; and of the way through an image and
the decoder of `EccExperiment`.

What would add most next:

1. `Extension`: background, content script and popup of `packages/extension`.
2. `GuiCodec`: the threads of the desktop client.
