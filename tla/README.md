# hlsXcoder: a TLA+ verification project

hlsXcoder turns a live input (UDP, RTP, SRT, RTSP, RTMP, HTTP or a file) into HLS.
A Go program (`src/src/transcoder`) probes the input with `ffprobe`, chooses a
program of the transport stream, starts one `ffmpeg` per requested encoding,
writes the master playlists, serves everything over HTTPS and reports to a
management server, Titania. It runs in a container that starts it again when it
ends. This directory holds TLA+ modules of that program, the TLC runs that check
them on small instances, and TLAPS proofs for instances of any size. The ffmpeg
in `src/ffmpeg` is patched for this program; the parts of it that carry a live
channel from the UDP socket to the files a player fetches are modelled too.

Identifiers follow the source, which is in Spanish in the Go program. File names
are relative to `src/src/transcoder/` or, for C files, to `src/ffmpeg/`.

## 1. Inventory

| Component | Source | State it keeps | Operations |
|---|---|---|---|
| Command line | `entrada/entrada.go` | the `Config` record | `ObtenerArgumentos`: parse flags, normalise codec names, rewrite the input URL |
| Main goroutine | `main.go` | `main_channel` | start coordinator and web server, end on the first message |
| Coordinator | `codificacion/codificacion.go` 656-680 | channel, number of encodings | start one goroutine per encoding, receive one result from each |
| Probe | `codificacion.go` 120-376 | `programas` (local), `programa` (package variable), summary | run ffprobe, parse, filter, rename, post, select |
| Encoding goroutine | `codificacion.go` 393-653 | locals, output directory, ffmpeg process | probe, master playlist, arguments, post the URL, run ffmpeg, send the result |
| Argument generation | `codificacion.go` 44-113, 378-389; `codificacion_hls.go` 14-39 | none | build the ffmpeg command |
| Master playlist | `codificacion_hls.go` 42-116 | `hls.m3u8` | remove and make the directory, create and write the file |
| Web server | `servidor_web/*.go` | none after start | routes, `servirFichero`, player page |
| Web player | `src/web/www` | page state | play, draw the vumeter |
| UDP input | `libavformat/udp.c` 461-520, 968-1130; `avio.c` 362-412 | circular buffer, error, wait_for_signal | receiving thread, `udp_read` and its retries, `udp_close`, signals |
| Circular buffer | `libavutil/fifo.c` | bytes, pointers, wrapping counters | write, read, drain |
| Time stamps of MPEG-TS | `libavformat/mpegts.c` 974-1370, `utils.c` 106-118, 765-906 | last stamp, wrap reference of each program | unroll, repair of subtitle stamps, wrap correction |
| Offset of the input | `fftools/ffmpeg.c` 4374-4520, 2570-2738 | `ts_offset`; `next_dts`, `pts` and `dts` of each stream | `process_input` |
| Option groups, outputs | `fftools/cmdutils.c`, `ffmpeg_opt.c` | groups, filter graphs, streams | split the command line, choose encoders, open outputs |
| HLS muxer | `libavformat/hlsenc.c` | segments, playlists, sequence numbers | write packet, split, append, delete, publish, trailer |
| Slice threads | `libavutil/slicethread.c` | job counters, per-worker flags | create, execute, free |
| Buffer pool | `libavutil/buffer.c` | pool list, reference counts | get, ref, unref, uninit |
| The rest of ffmpeg, ffprobe | `src/ffmpeg` (vendored) | | run as child processes |
| Titania, container | external | | answer posts; kill and restart the process |

How they interact: goroutines share `programa` and `configuration` (package
variables), the encodings and the coordinator share an unbuffered channel, the
coordinator and the web server share `main_channel` with main, and the encodings,
the ffmpegs and the web server share the output directories. Inside ffmpeg the
receiving thread hands datagrams to the transcoding thread over the circular
buffer; their stamps pass the demuxer and `process_input`; filters and decoders
run on the slice threads and exchange frames of the buffer pools; the HLS muxer
writes the files which the routes of the web server reach. Any `log.Fatal` or
panic, in any goroutine, ends the whole process.

What is hard about it, and what the properties are for (the full list, with
lines, is `hazards` in `PROJECT.json`):

- every encoding goroutine probes by itself and writes `programa` **without a
  lock**, while the others read it field by field;
- the id that selects a program is assembled in that shared variable, line by
  line, and looked up later in a local map;
- audio names are made unique by a loop that scans the existing names once while
  the candidate changes;
- `generarArchivoM3U8` deletes a whole directory, which another encoding, or a
  previous start of the container, may have filled;
- the process must end, for the container to restart it, exactly when it should;
- the arguments of ffmpeg are a long concatenation in which the place of an option
  decides which output gets it, and playlists, routes and arguments must agree on
  every URL though each builds its own;
- the UDP input drops to an error on an overrun on purpose ("para forzsr reboot de
  fuente", `entrada.go:49`), which only helps if the reader is told;
- the local patches of the demuxer unroll 33-bit stamps beside the mechanism
  ffmpeg already has for it, and a restarted source reaches the streams one by one;
- a playlist must never name a file that is not complete, while opens fail, old
  segments are deleted and the stream ends at any packet;
- the threads of ffmpeg share counters and reference counts without a lock.

What makes each part correct: the probe keeps exactly the streams the options let
through, under distinct names, of the right program, and reports them all; the
encodings use one program, announce only what they produce and never touch each
other's output; the process ends when its work has ended, and not before. The
input loses nothing silently; every stamp is the true time and all streams keep in
sync; what the playlists list is there, complete and in order; every URL a client
is given is answered; every job is run once and no buffer is used after its end.

## 2. Modules

| Module | Models | State and actions |
|---|---|---|
| `ObtenerStreams` | one call of `obtenerStreamsPost` | A line of ffprobe's report is the record its regular expressions extract. One action per kind of line (`LineaPrograma`, `LineaServicio`, `LineaVideo`, `LineaAudio`, `LineaSubtitulo`, lines dropped), one per iteration of the renaming loop (`Renombrar`, `FinRenombrar`), the two posts, the selection (`Elegir`), and the fatal and panic outcomes. |
| `MCObtenerStreams` | bounded reports and configurations | |
| `ObtenerStreamsProofs` | | inductive invariants and proofs |
| `Transcoder` | the running program | main, coordinator, encodings, web server, output directories, container. One action per access to a field of the shared variable, per file operation, per channel operation, per post; a file operation may fail. |
| `MCTranscoder` | encodings, reports, configurations | |
| `TranscoderProofs` | | inductive invariants and proofs |
| `Argumentos` | the ffmpeg command of one encoding, from the Go code that builds it to the outputs ffmpeg opens | An argument is an option with its value, the input or an output file. `Generar` builds the list; `AddOpt`, `FinishInput`, `FinishOutput`, `SplitDone` are `split_commandline`; `OpenOutput` opens an output or fails; `CheckFilterOutputs` finds labels without a taker. |
| `Reproduccion` | `Argumentos` composed with the master playlist, the files of the muxer, the routes of the web server and a player | The player has URLs to fetch, fetched and missed; `Pedir` is one request. |
| `Udp` | the UDP input and its two threads | One action per step between two points where another thread can run: `RxRecv`, `RxLock`, `Read`, `Retry`, `UdpRead`, `Wake`, `Close`, `Join`, and the signals. |
| `Channel` | what a reader may expect of `Udp` | put, get, discard, fail, tell |
| `Fifo` | the ring of bytes with its pointers and wrapping counters, used by `Udp` | one operator per function, from the buffer before the call to the one after it |
| `MpegTsTime` | the way of a stamp from the PES packet to `av_read_frame` | `Packet`, `Unstamped`, `Sound` (a frame whose stamps are interpolated), `Pcr`, `Subtitle`, `SubtitleEarly`; the pictures are H.264 or HEVC, as `compute_pkt_fields` tells them from MPEG-2, and the source sends them in the order of their dts; the source is external and its true time is kept beside the stamp |
| `ProcessInput` | the offset of the input | `InputPacket`, and `Restart`, `Resume` of the source |
| `HlsEnc` | one HLS output | A packet is the steps of `hls_write_packet` in their order: `Split`, `AppendSegment`, `Window`, `Publish`, `Start`; the end is `Trailer`. |
| `ArgumentosProofs` | | inductive invariants and proofs about `Argumentos` and `Reproduccion` |
| `TimeStampsProofs` | | inductive invariants and proofs about `MpegTsTime` and `ProcessInput` |
| `UdpProofs`, `HlsEncProofs`, `SliceThreadProofs`, `BufferPoolProofs` | | inductive invariants and proofs |
| `SliceThread`, `ParallelFor` | the thread pool, one action per atomic access or critical section, and the parallel loop it is to be | |
| `BufferPool` | pool, entries, references held by threads | `Get` and `Count` are apart as in the code; `Push`, `Release`, `FreeEntry`, `FreePool` too |
| `MC...` | the constants of the runs | |

The refinements: `Udp` implements `Channel` (the datagrams stored are the queue;
flushing while the input waits for the signal, and freeing the buffer, are a
`Discard`), and `SliceThread` implements `ParallelFor` (a batch begins, each of its
jobs is done once, it ends).

Abstractions, and why they lose nothing the properties speak of:

- *Names.* The name the code gives an audio stream is `lang_pid_pid...`. It is
  modelled as the record (base, pid, number of suffixes): the base holds no
  underscore and the pid is decimal, so two such strings are equal exactly when
  the records are. `hex2int` keeps its treatment of an empty id (0).
- *The shared variable.* In `Transcoder` a field of `programa` is the program it
  was copied from; a program is its number, whether it has audio left after the
  filters, and the kind of its subtitles. `programa = *programaHash` is a data
  race: it is copied field by field, other goroutines running in between. A
  single field is copied in one step (Go strings and slices are several words,
  so a torn field is possible in principle; it would show as a crash or garbage,
  not as another program's value). A step reads or writes one field: the video and
  the tracks that one output maps are read in steps of their own, and so are the two
  fields of the copy `generarArchivoM3U8` gets. Reads of one field by one loop are one
  step. A use of a field is the pair (field, program).
- *The probe inside `Transcoder`* keeps what touches the shared variable: the
  assignments of `programa.id` line by line, the post, the lookup, the copy. The
  rest of the probe is `ObtenerStreams`.
- *Files.* A directory is its master playlist (who has it open, which texts it
  holds) and its track directories, each marked with the encoding and the start
  of the process it comes from. An encoding that writes to a file another one
  has removed loses its text; one that writes over a longer text leaves a tail.
  The errors of `RemoveAll`, `MkdirAll` and `Fprintln` are ignored by the code
  (`codificacion_hls.go:44`, 45, 114; `codificacion.go:69`, 531, 566): a removal that
  fails leaves any part of the directory, a write that fails a text of part of the
  tracks, and the goroutine goes on; `fallo` records it.
- *ffmpeg*, in `Transcoder`, runs for an arbitrary time and ends with or without
  an error.
- *Bitrates* in `Argumentos` are sequences of digits, since the code slices the
  string; languages, codecs and directories are names. Options that only change
  the picture are left out, those that decide between outputs, encoders or errors
  are kept. The lines considered (`Considerada`) are those of codecs that ffmpeg
  knows, without a bitrate twice in one `-cv` and with `-hwaccel` only beside an
  encoder on the GPU; `ObtenerArgumentos` checks none of the three. Tracks have names
  of their own, as the probe gives them. The registry of encoders keeps the order of `allcodecs.c`.
- *URLs* are records of directory, language, kind of file, bitrate and whether they
  belong to the webvtt half. A route is the set of URLs its expression accepts:
  the run has a name with a comma to tell them apart.
- *Critical sections.* What a thread does under a mutex is one step; everything
  else that another thread can see is a step of its own. Atomic operations are
  sequentially consistent, as the C code asks for or needs.
- *Datagrams* are their length and number, so that a byte of the circular buffer
  can be told from every other; the header is four bytes as in the code.
- *Stamps* are integers modulo a small power of two. The minute, the ten seconds
  and half a wrap keep their order. True time is a history variable.
- *Segments* are their number, duration and whether the file is open, complete
  or gone. A file operation that may fail does so up to `MaxFailures` times.
- Each encoding of `Transcoder` has one bitrate; the loop repeats the same reads.
- Log output, the wording of posts and the text of arguments are left out.

## 3. Runs

| Run | Result | What it shows |
|---|---|---|
| `obtener_streams` | pass | every report of the bounded set, every combination of options: `TypeOK`, `PistasUnicas`, `SeleccionPrograma`, `PistasExactas`, `InformeCubre` |
| `transcoder_sid` | pass | two encodings, three programs, `-sid`, with and without `-test` and `-wn`, one encoding whose file operations may fail, crash at any step, one restart: `ListaIntacta`, `PistasProducidas`, `FinOrdenado` |
| `transcoder_cambios` | pass | the input changes between the probes of the two encodings: `TypeOK`, `ProgramaCoherente`, `PanicoExplicado` (the panics on stale or missing tracks happen here, and only for that reason), and the liveness properties `Termina`, `TodasArrancan` |
| `reproduccion` | pass | every combination of options of the set: ffmpeg starts (`Arranca`), each output has the streams (`Contenido`), encoder and bitrate (`SalidaPedida`: `CodecPedido`, `FramesGpu`, `BitratePropio`; `MaximoSuficiente`) and files (`ArchivosPropios`) it should; a player that follows every link is told of every track and gets an answer to all (`Reproducible`: `TodoAnunciado`, `NadaFalta`) |
| `udp` | pass | an input as hlsXcoder opens it, one held until SIGUSR1, one whose overruns are not fatal and whose sources may be blocked: `Framing`, `NoGaps`, `ClosedIsFinal`, `ReadEnds` (`ErrorEnds`, `InterruptEnds`), `ImplementsChannel` |
| `mpegts_tiempo` | pass | `Correct`: stamps are true across wraps, with two programs; `SubsNearPcr` |
| `process_input` | pass | `InSync`, `Settles`, `NoSetback` over two restarts of the source |
| `hls` | pass | the eight kinds of output: `ListedComplete` (`SegmentsComplete`, `VttComplete`, `InitComplete`), `Numbering`, `Deletion` (`RecentComplete`, `DiskBounded`), `EndComplete`, `OnlySlides`, `TrailerEnds` |
| `slice_thread` | pass | `Separate` (`Quiescent`, `OwnThreadNr`, `FreedAlone`), `Terminates`, `ImplementsParallelFor` |
| `buffer_pool` | pass | `MemorySafe` (`NoUseAfterFree`, `SoleOwner`), `NoLeak` |
| `primer_programa` | violation | without `-sid` the *last* program is selected; the help of `-sid` says the first |
| `transcoder_sin_sid` | violation | without `-sid` the race mixes two programs in one encoding |

Names in brackets, or after a colon, are the parts of the property before them. In the
modules of ffmpeg and in `Argumentos` the type invariant is a conjunct of the first
invariant of the run.

Where the code falls short of what its documentation says. Two cases have a run of
their own, above. The others are written into the properties as the exact cases
they except, or bound what a configuration contains; each can be seen by removing
the exception:

- *Probe.* `-audio_lang` is compared with a name that already carries the pid
  (`esp_257`, `codificacion.go:277`), so the plain tags of its help ("Ej:
  -audio_lang esp,eng", `entrada.go:103`) match nothing. `PistasExactas` takes an
  audio as asked for by its language (`Pide`), and excepts those asked for in no other
  way (`SoloPorIdioma`). A line is a program line wherever "Program N" stands in it
  (`codificacion.go:194`), also in the name of a service, and empties a program read
  before: that section starts anew (`Reabierta`).
- *Encodings.* Two `-cv` of the same codec share a directory, which each of them
  removes (`codificacion_hls.go:44`), though `-cv` is meant to be repeated
  (`entrada.go:17`): `ListaIntacta` and `PistasProducidas` ask for distinct names
  (`NombresDistintos`). The ignored errors of the file operations leave an old
  directory, a partial playlist or a track without a directory behind, under a URL that
  is posted all the same: `ListaIntacta` and `PistasProducidas` except exactly what the
  operation that failed was for, and keep the rest. `subtitulos[0]` and `audio[0]` of
  the shared variable are indexed on what was read of it earlier, or on nothing
  (`codificacion.go:427`, 571): `PanicoExplicado` says from which choices of the
  goroutines the panic comes. An encoding whose ffmpeg has ended stays down while another
  one runs (`codificacion.go:675`; "para forzsr reboot de fuente",
  `entrada.go:49`): `Termina` asks for the end of all of them.
- *Arguments.* Options are given before the first output only, so the second
  bitrate of a `-cv` is encoded by the default encoder (`codificacion.go:512`), and
  two bitrates of hevc write the same `init.mp4` (`codificacion_hls.go:29`), though
  `-cv h265:5000,2800` is the example of the help (`entrada.go:111`). Without `-cv`,
  `-deint` adds a filter to a copied stream (`codificacion.go:502`) and DVB subtitles
  over MPEG-2 name an encoder that does not exist (`codificacion.go:416`): ffmpeg
  exits. So it does when the first frame comes with `-cv h265_nvenc`, always, because
  of the `-profile:v baseline` of h264 (`codificacion.go:463`; `nvenc_hevc.c:42` knows
  main, main10 and rext), and with `-hwaccel` and two bitrates, because the frames of
  the second are on the GPU and its encoder, libx264, is not. `-cv h265` without nvenc
  gives h264 (`codificacion.go:465`), against the help. The maximum bitrate is made of the first two digits only
  (`codificacion.go:50`): too low for five digits, for the last rates of each hundred from
  1071 to 1499 and for digits that begin with zeros; one digit
  panics (`codificacion.go:45`), and so does teletext with `-an`
  (`codificacion.go:571`). These are the exceptions of `CodecPedido`,
  `BitratePropio`, `ArchivosPropios`, `Arranca`, `MaximoSuficiente`.
- *URLs.* With a bitrate, the entry of DVB subtitles names a playlist nobody writes
  (`codificacion_hls.go:79`); no route reaches the `init.mp4` of DVB subtitles in
  hevc (`servidor_web_hls.go:53`); an audio with two languages has a comma in its
  name, which its route refuses (`servidor_web_hls.go:54`); the routes take names
  of up to 20 characters (`servidor_web_hls.go:52` to 56), which a stream in six
  languages exceeds. `NadaFalta` excepts
  them (`Inalcanzable`).
- *HLS muxer.* For an output of audio and webvtt a subtitle that starts a segment
  closes the .vtt file in place of the media file (`hlsenc.c:2374`; "Flush any
  buffered data", line 2346), and the listed segment loses the end of its buffer;
  in fmp4 the same packet makes `avio_close_dyn_buf` free a file context
  (`hlsenc.c:2360`), the state `undefined`. After a playlist that could not be
  opened, the trailer of fmp4 lists its last segment again (`hlsenc.c:2445`). These
  are `Readable` and `Relisted`. A segment is deleted when `hls_delete_threshold`
  later ones have left the list (`hlsenc.c:501`), sooner than "a period of time
  equal to the duration of the segment plus the duration of the playlist"
  (`doc/muxers.texi:831`); `RecentComplete` states what the code keeps.
- *Stamps.* `avformat.h:2401` says that they "are always set to correct values".
  Not so when the input is joined about a wrap: the program whose stamp comes first
  has wrapped already, and another has not, or its own earlier packets have not. Their
  stamps are unrolled beside the first to numbers of 0 or less. A negative one gives
  `update_wrap_reference` a number near the end of the range (`utils.c:776`), and when
  the stamps of that program reach the reference they fall by a whole wrap; an exact 0
  is taken by `unroll_timestamp` for no stamp at all (`mpegts.c:981`), and the next one
  counts from another turn. The model takes such joins, and the history variable `good`
  tells them: `Correct` and `SubsNearPcr` except them (with the antecedent left out TLC
  finds both in the run). Two programs half a wrap apart (`mpegts.c:984`) are the other
  case; `ClocksAssumption` excludes it.
- *Offset of the input.* `process_input` knows the beginning by the value of
  `ts_offset` (`ffmpeg.c:4380`): should a restarted source lead back to that value by
  chance, the first packet of a late subtitle stream moves the offset of all streams
  (`StartTimeAssumption` excludes it). A restart that moves the clock by about the
  threshold is seen by some streams and not by others, and losses that add up to the
  threshold are taken for restarts (`ThresholdAssumption`). A packet is also compared
  with the end of the last frame the decoder gave (`FFMAX(ist->pts, ist->dts)`,
  `ffmpeg.c:4476`): `top`. A decoder that gives its frames when they are due (pts <=
  dts of the packet that brought them out), or up to a tenth of a second before, never
  makes that test true for a packet that is on time (`EarlyAssumption`). If it gave
  them more than two tenths early, a loss in that stream would pull the offset back by
  the loss, the next packet of another stream would raise it again, and so on for ever:
  the offset would not settle.

What the models also show:

- `-thread_queue_size` has no effect with one input: `fftools/ffmpeg.c` starts no
  input thread.
- The patch at `ffmpeg.c:4140` acts only with `-copyts`, which is never given.
- Without nvenc every video of a `-cv` is encoded by libx264, in an fmp4 directory
  named hevc for `h265`; the software DVB subtitles ignore the bitrate.
- A bitrate of 500 gets a maximum of 5350.
- While wait_for_signal holds the input and no SIGUSR1 comes, an error of the
  receiving thread is not told as long as the buffer holds something. Once ffmpeg
  has started, one SIGTERM does not end the read of a silent source; two do.
- The trailer lists an fmp4 segment whose file could not be opened; when its first
  open fails, `hls_window` uses a name for the .vtt playlist that was never set
  (taken as no effect).

Bounds.

- `MCObtenerStreams`: all sequences of up to three stream lines placed in and
  around the sections of one or two programs, and reports of up to five audio
  streams in one program over two languages and two pids (equal pids, no pid).
  Five audios are what it takes for a name to be extended several times in one
  pass. Each option is absent or set to a value that some streams match and some
  do not. The loop treats lines one by one and its state is the map and the
  summary, so longer reports repeat these cases.
- `MCTranscoder`: two encodings are enough for every race the code has (each
  involves one writer and one reader, or two writers); three programs cover DVB,
  teletext and no subtitles, with and without audio; `MaxArranques = 2` gives a
  crash at every step followed by a complete second start on the files left. `Fallos`
  lets one encoding fail at each of its file operations, in both starts, beside one
  that never fails. The run with a changing input has one start, since a restart
  forgets all that its properties speak of, and reports that differ in each way the
  panics depend on.
  The two encodings are not symmetric in the runs (their names differ), so no
  symmetry set is declared.
- `MCReproduccion`: `-cv` absent, one or two codecs, on GPU and CPU, zero to two
  bitrates, subtitles and audios: enough for an option to reach a wrong neighbour; an audio in
  two languages and tracks in six, for the routes.
- `MCUdp`: four datagrams of up to 3 bytes and a buffer of 13, which two of the
  longest with their headers overrun; the caller reads less than a datagram; two
  signals; counters of 4 bits, which four datagrams wrap. The lengths are fewer for
  the options hlsXcoder does not use.
- `MCMpegTsTime`: counters of 4 bits. The input is joined before both programs wrap,
  or when one has wrapped and the other has not, and both wrap, one of them twice. The
  clocks are 3 ticks apart and `Minute` is 6, the least that `LateAssumption` allows: a
  minute is longer than ten seconds and what the streams are apart. A PES packet of
  sound has up to three frames.
- `MCProcessInput`: two restarts, clocks ahead and behind by more than the
  threshold, losses below it, a stream one wrap ahead and a subtitle stream; the
  picture is decoded, with frames as early as allowed or late, and the sound copied.
- `MCHlsEnc`: six segments over a window of two, so that segments enter, slide and
  are deleted; up to two failed opens or deletions.
- `MCSliceThread`: a pool of three and, with a `main_func`, of two threads, four
  jobs, two batches: more jobs than threads and fewer, and a worker left over from
  the batch before. `MCBufferPool`: three threads, two buffers.
- `CHECK_DEADLOCK FALSE` is used where the system may stop: the probe returns, the
  input and the muxer are closed, the source of stamps ends at `Horizon`. In
  `Transcoder` deadlock is checked: a process that has ended for the last time stutters in `Detenido`, and a running one must be able to move.

Fairness (`Equidad`, used only for the liveness properties): weak fairness for
the coordinator, for each probe and encoding goroutine, for the start of the web
server and for its message to main. The Go scheduler is fair to runnable
goroutines, and each of these steps is either computation, a file operation, a
channel operation whose peer is ready, an ffprobe that ends or a post that is
answered or refused. The posts have no timeout in the code, so a Titania that
accepts a connection and never answers is excluded by assumption. Nothing is
assumed about ffmpeg ending, the web server failing, crashes or restarts.
In the modules of ffmpeg: weak fairness of each thread of `Udp`, `SliceThread` and
`BufferPool` for its own steps (the scheduler of the kernel; a condition variable
may wake spuriously but a signalled one does wake), and in `HlsEnc` of the steps
inside a packet and the trailer. Datagrams, signals, packets and the calls of a
user are not assumed to come.

## 4. Proofs

`ObtenerStreamsProofs`, for any set of reports and configurations:

- `Tipos`: `Spec => []TypeOK`. The type invariant is inductive; it includes that
  a program whose streams are being read is in the map.
- `NombresDePistas`: `Spec => []PistasUnicas`. The heart is why one pass is enough.
  `PistasUnicas` is not inductive: the candidate grows while the list is scanned,
  so a track already passed might hold the name it ends on. It cannot, because
  among the stored tracks of one language and pid the number of suffixes grows
  with the position (`Ordenados`) and skips no value (`Densos`); so during the
  pass every such track already scanned has fewer suffixes than the candidate,
  and all the smaller numbers are taken (`Libre`). The subtitle half follows from
  the guard of the append.
- `InformeCompleto`: `Spec => []InformeCubre`, from the same invariant
  (`PistasInv`): a track is added to the summary in the step that stores it, and
  the summary never shrinks.
- `ProgramaElegido`: `Spec => []SeleccionPrograma`, from `SeleccionInv`: without
  `-sid` the global id follows the program being read; with it, it is unset until
  that program is read, which `-streams` prevents.
- `ContenidoExacto`: `Spec => []PistasExactas`. The property speaks of the end and
  compares the program with a definition over the whole report; `ContenidoInv` says
  the same of every program in every state, for the lines read so far since the program
  was last opened (`Tramo`). `Abierto` ties
  `programId` to the section of the line being read (`EnSec`), `Pendiente` the audio in
  the renaming loop to the line before it, and `SubsExactos` says of each language
  dropped that an earlier track has it. Two first subtitles of one language are the
  same line, which turns the two inclusions into the equality of the property.

`TranscoderProofs`, for any number of encodings, any reports and any number of
restarts:

- `RaceSinConsecuencias`: `Spec => []ProgramaCoherente`. `CompartidoInv`:
  everything in `programa`, and everything a goroutine has picked to copy into it,
  is a program the options can select; a goroutine past its copy never finds a
  field empty. The key lemma, `MismoId`, is that an id written by another
  goroutine can only match, in this goroutine's report, a program that could have
  been selected here too. If the probes agree on one such program, all the uses
  are of it whatever the interleaving.
- `ResultadosCompletos`: `Spec => []FinOrdenado`. `CuentaInv`: the coordinator's
  counter is the cardinality of the set of encodings that have delivered.
- `SalidasSeparadas`: `Spec => []ListaIntacta`. `DiscoInv`: for each encoding,
  what its own directory holds at each of its labels, and that a URL of this start
  exists only once ffmpeg was launched. Distinct names make every other
  encoding's step a stutter for it; a restart makes every posted URL stale.

- `PistasAnunciadasHechas`: `Spec => []PistasProducidas`, from `MemoriaInv` on top of
  `CompartidoInv` and `DiscoInv`. With probes that agree, whatever an encoding reads
  of `programa` after its own probe is the one program that can be selected
  (`LecturaUnica`), so what it concluded from one read holds at the next. `Producida`
  says, for each label from the playlist to the launch, which of the announced tracks
  are already in the command and have their directory, unless making it failed.
- `PanicosExplicados`: `Spec => []PanicoExplicado`, for inputs that change at will.
  `PanicoInv` keeps who is responsible for what an encoding goes by: every field of
  `programa` is one some goroutine has chosen (`elegido`, which is set once in a start,
  so that it stays to be blamed), a goroutine that believes there are subtitles has one
  that chose a program with subtitles behind it, and one that believes in teletext one
  with teletext. A read that contradicts the belief is then of another one's choice.
- `Tipos`: `Spec => []TypeOK`, from the same invariants.

`BufferPoolProofs`, for any finite sets of threads and buffers and any bound on the
references a thread holds:

- `PoolMemorySafe`: `Spec => []MemorySafe`. The code counts a buffer into the pool
  *after* it has taken it and out *after* it has put it back, so the count is not the
  number of buffers in use. `PoolCounted` says what it is: one until uninit, the
  buffers in use whose getter has counted them, and the threads between putting one
  back and counting it out. Any thread gets, several at once (`buffer.h:281`); uninit
  comes from any thread, but not while one is between taking a buffer and counting it.
  Nothing in `buffer.c` prevents that: the callers do (the frame threads get, and
  replace a pool, under their `buffer_mutex`; `avcodec_close` joins them first), and
  the mutant of `MemorySafe` shows that without it a pool is freed under a user. An atomic operation then adds or removes one element of a finite set, and a
  count of zero means that nobody is left. `Pushing`, `Counting` and `Freeing` say
  who carries a buffer, or the pool, in between.

`SliceThreadProofs`, for a pool of any size, with or without `main_func`, any number
of jobs and of batches:

- `PoolSeparate`: `Spec => []Separate`, from `PoolInvariant`. `Phases` ties the
  program counters of the workers to that of the caller. `Counters` says, while a
  batch runs, what the two atomic counters count: `first_job` the threads that have
  taken their first job, and what `current_job` is beyond `nb_jobs` the threads that
  found none left. `Locals` and `Shares` say whose each job is (one that runs is begun,
  not ended and no other thread's; one begun is ended or being done), and `LastOne`
  that `current_job` reaches `nb_jobs + nb_active` for exactly one thread.
- `PoolRefines`: `Spec => ImplementsParallelFor`: the initial states map, and each
  step is a begin, a start, an end of a job, an end of the batch, or a stutter.

`HlsEncProofs`, for every kind of output, any window, any durations, any number of
segments and of failed opens and deletions:

- `PlaylistsReadable`, `PlaylistsNumbered`, `PlaylistsEnd`: `ListedComplete`,
  `Numbering` and `EndComplete` always hold. `Inv` says for each place of the muxer
  how the number of the current segment is related to the media sequence (`Control`),
  which files are open (`Opened`, `OpenedVtt`), what numbers the list and what has
  left it hold (`SegmentNumbers`), how far each published playlist may be behind the
  list (`PublishedInv`: level with it between segments unless an open failed), and
  that what is listed, or about to be, is complete (`SegmentFiles`, `SegmentVtt`,
  `NextFile`). None of the three properties is inductive without it: the names of
  the files are numbers, and two segments with one number would share a file.
- `PlaylistsOnlySlide`: `Spec => OnlySlides`, an action property, from `Inv`.
- `DeletionInTime`: `Spec => []Deletion` when `hls_delete_threshold` is 1, its
  default (`hlsenc.c:2992`), which hlsXcoder does not change. For a larger threshold
  the walk of `hls_delete_old_segments` over durations may stop early, so the bound
  on the number of old segments depends on the durations. `RecentInv`: the playlist
  before the current one is readable until the next segment is closed; `DiskInv`: a
  file that is neither listed, old nor current is one that could not be deleted.

`UdpProofs`, for a buffer of any size, counters of any width that can count it,
datagrams and requests of any length, all options, any number of datagrams and of
signals:

- `BufferFramed`: `Spec => []Framing`. First the ring by itself: `FifoOK` relates
  the pointers and the wrapping counters to what the buffer holds (`Held`), and
  `Drained` and `Written` say what each operation does to it, wherever the end of
  the memory and the overflow of the counters fall. Then the frames: `Contents` is a
  recursive definition, and `CatNext`, `CatSame` and `CatShift` (a row of blocks
  extended at its end, and split at its front) are proved of it by induction. The
  invariant `Whole` says that the buffer holds the frames that wait; it makes the
  four bytes `udp_read` peeks at a header, so that its two drains take exactly one
  frame out (`FirstFrame`).
- `InputWithoutGaps`: `Spec => []NoGaps`. `Ordered`: datagrams are stored in the
  order of arrival, and the one in the hands of the receiving thread is newer;
  `Gapless`: where nothing is dropped, all of them are stored; `LastGiven`: what was
  given last is what was taken out last, which the flush of wait_for_signal does not
  break since it happens only before the first delivery.
- `FreedIsFinal`: `Spec => ClosedIsFinal`: a joined thread has ended.
- `RingIsChannel`: `Spec => ImplementsChannel`, the refinement of `Channel`: `Store`
  is a `Put`, `Deliver` a `Get`, `Flush` and `Join` a `Discard`, the end of the
  receiving thread a `Fail`, `FailRead` a `Tell`, everything else a stutter. It needs
  that the error is set only by the last step of the thread and that an empty buffer
  means that nothing waits (`NothingWaits`).

`TimeStampsProofs`, on `MpegTsTime`, for counters of any width, any streams and programs, any jitter,
delay and number of wraps within the assumptions of the module:

- `StampsRight`: `Spec => []Correct`. When the input was joined well (`good`), `Inv`
  says that one multiple of the range of the counter, `K`, fixed by the first stamp of the input, relates everything after it to
  the source: `base_ts` is the time of something sent about now plus the clock of some
  program less `K` (`Based`), so that the next stamp, of whatever program, is less than
  half a turn from it and `unroll_timestamp` finds the right one (`Unroll`, `Beside`).
  The wrap reference of a program, set by its first stamp, is before whatever the
  source may still send (`WrapOK`), so that `wrap_timestamp` takes the same from every
  stamp (`Wrapped`); for that the slowest stream must be less than the minute of
  `update_wrap_reference` late (`Before`, `LateAssumption`). Without `K` and `WrapOK`
  nothing relates two packets of different streams. `SoundOK` says that `cur_dts` is the
  right stamp of the frame of sound that follows, so that an interpolated one is right.
- `SubtitlesInTime`: `Spec => SubsNearPcr`, an action property, from `Inv` and what
  `fix_teletext_pts` returns (`Fixed`).

And on `ProcessInput`, for any streams, clocks, durations, losses and number of
restarts within the assumptions of that module:

- `StreamsInSync`, `OffsetSettles`: `InSync` and `Settles`. While a restart is under
  way the streams pull the offset to and fro, each to its own clock. `OffsetOK` says
  that it always suits one of the two clocks in use, the old one only while a picture
  or sound stream still has it; `StreamOK` that the delay of each such stream is one
  that the losses so far can have caused (`Delays`). So a correction by the threshold
  is made exactly for the other clock (`NearOrFar`) and leads back to such a delay
  (`Outcome`). Once all have the new clock, only the correction of stamps that run
  backwards is left. `StreamOK` bounds the frames of the decoders by the margin of that
  test, so that it only catches packets behind their place (`Moves`) and raises the
  offset: after one round each stream is delayed by no more than the offset says, after
  which nothing moves it (`SinceOK`).
- `NeverSetBack`: `NoSetback`, an action property, from what `Delta` is (`Moves`).

`ArgumentosProofs`, for any command line and program that `Considerada` takes, with
any number of encodings, bitrates, subtitles and audio tracks:

- The list of arguments is a walk through the outputs. A *key* names one of them:
  `<<1, i, j>>` the video (`j = 0`) or the DVB subtitle `j` at bitrate `i`,
  `<<2, i, 0>>` the audio `i`, `<<3, i, 0>>` the teletext `i`. `Todo(c, k)` is the list
  from the key `k` on; that `CommandArgs` is `Todo` of the first key, and that a block
  is followed by that of the next key (`Sigue`), rests on what the concatenations of
  the code are, which is shown of their suffixes (`Colas`) by induction.
- `Invariante`: `SpecR => []IInv`. None of the properties is inductive: they speak of
  the opened outputs, and what an output gets is decided while the list is split.
  `Cortado` says at which key `split_commandline` is, which of the options before the
  file are already in the current group and that the groups before it are those of
  the keys passed; `Duenos` gives every pad of every filter graph an owner, the output
  it was written for. All graphs without `-hwaccel` use one label, so this is where
  things could go wrong: pads of one label are in the order of their owners
  (`EnOrden`), and outputs open in that order, so the first free pad is always the
  one meant. `Abierto` says of the outputs opened so far that their streams are
  those expected (`Esperadas`), that no other pads are taken, and which of the outputs
  could not be opened (`Prohibida`) or initialised (`Rota`).
- `FfmpegArranca`, `ContenidoDeSalidas`, `SalidasPedidas`, `MaximosSuficientes`,
  `ArchivosSeparados`: `Arranca`, `Contenido`, `SalidaPedida`, `MaximoSuficiente` and
  `ArchivosPropios` always hold, from `IInv`. That the exceptions of `Arranca` are
  exact is part of it: ffmpeg stops if and only if the line is one of `Rechazada`.
  `MaximoSuficiente` comes down to arithmetic on at most five digits, after `Valor` has
  been unrolled.
- `TodoReproducible`: `SpecR => []Reproducible`, with `RInv` beside `IInv`. The player
  knows of nothing but what the master playlist announces and that leads to
  (`Conocida`), it has what it was served and all the links of it (`Cerrado`), and every
  answer is the one the route and the file give. Both halves of the property are then
  about `Escrita`, `Anunciada` and `Ruta`, which are functions of the configuration.

Assumptions on the constants are the named `ASSUME`s of the modules: `Enc` is a
non-empty finite set without `Coord`, reports are sequences of well-formed
programs or lines, program numbers are non-empty strings, "none" is no language
tag; threads and buffers are finite sets; windows,
durations, sizes and bounds are numbers of the right sign; the circular buffer is
smaller than its counters can count. `2^Width \in Nat`, and that the range of a
time stamp is twice its half, are among them because the provers know nothing of
powers; `AV_NOPTS_VALUE` is less than any time stamp. TLC evaluates them in every run.

Each inductive invariant was checked by TLC on the instance of its run before it was
proved, except `IInv` of `ArgumentosProofs`, whose witnesses (a key, a split of the
options, the owners of the pads) are existentially quantified over sets that TLC does
not enumerate. Induction over numbers is by the set of counterexamples, which has a least
element (`LeastNumber`, from the well-foundedness of `<`).

Every invariant and every action property of the passing runs, and both
refinements, are proved. Only model-checked are the liveness properties `Termina`, `TodasArrancan`,
`ReadEnds`, `TrailerEnds`, `Terminates` and `NoLeak`, which are out of the prover's
reach.

## 5. Not modelled

- The parsing of flags and the rewriting of URLs in `ObtenerArgumentos`, and the
  resolution filter (`-rf`): text in, text out. Their results are the
  configurations the runs enumerate.
- The page of the player beyond its requests: it keeps no state the program
  depends on. gorilla/mux and video.js are vendored; Dockerfiles, Jenkinsfile and
  certificates have no behaviour here.
- Posts to Titania that hang: the code has no timeout to model.
- Of ffmpeg: codecs, filters and image scaling, which are numerical code over large
  data; the hundreds of formats and protocols the program does not use; parsing of
  sections and PES headers; the scheduling of `transcode`; the queues between
  input threads (`threadmessage.c`), which exist only with several inputs;
  encryption, byte ranges and variant streams of the HLS muxer, whose options are
  never given; in `process_input` packets without a dts, and decoders that give
  several frames, or none, for a packet other than by their delay. This is by far the largest
  part of the source by lines, and the least by logic that belongs to this program.

## 6. Plan

1. `Entrada`: `ObtenerArgumentos`, composed with `Transcoder` for when two `-cv`
   collide, and with `Argumentos`, so that `Considerada` is what it returns.
2. An abstract specification of the probe (report and options in, program out)
   that `ObtenerStreams` implements and `Transcoder` uses.
