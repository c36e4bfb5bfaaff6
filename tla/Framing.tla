------------------------------- MODULE Framing -------------------------------
(***************************************************************************)
(* The byte streams between the host and the port: read_frame and         *)
(* write_frame of src/store/src/main.rs, under the main loop.             *)
(*                                                                         *)
(* A frame is a 4-byte big-endian length and a body of that many bytes.   *)
(* Bodies are counted, not spelled out: a stream is the list of its       *)
(* frames' body sizes.  The header bytes are computed, so the length      *)
(* arithmetic (the `as u32` cast, to_be_bytes, from_be_bytes) is kept.    *)
(* A byte has ByteBits bits: 8 in the program; TLC integers are 32-bit    *)
(* signed, so 4 real bytes (2^32) cannot be represented, and the models   *)
(* use narrower bytes with the same arithmetic.                           *)
(*                                                                         *)
(* stdin: the host writes frames, possibly in pieces (a pipe write can be *)
(* split), and may close stdin at any point, also mid-frame (the host     *)
(* died).  The port's read_exact blocks until its buffer is full or EOF.  *)
(* stdout: the port writes one response frame per request it reads; the   *)
(* host parses the stream with the same framing (spec 4.4).  Decoding and *)
(* handling are the Dispatcher's; here a response is just a size.         *)
(***************************************************************************)
EXTENDS Naturals, Sequences, SequencesExt

CONSTANTS
    ByteBits,       \* bits per byte
    RequestSizes,   \* body sizes of the frames the host writes
    ResponseSizes,  \* body sizes of the responses the port writes
    MaxFrames       \* frames the host writes in one session

VARIABLES
    inFrames,   \* body sizes of the frames the host has started to write
    inWritten,  \* bytes the host has written to stdin
    stdinOpen,  \* the host has not closed stdin
    handled,    \* frames read_frame has returned
    session,    \* "running", "closed" (Ok(None), exit 0), "failed" (exit 1)
    outSizes,   \* body sizes of the frames written to stdout
    hostPos,    \* bytes of stdout the host has consumed
    decoded     \* frames the host parsed: the index of the response, or 0

vars == <<inFrames, inWritten, stdinOpen, handled, session, outSizes,
          hostPos, decoded>>

Base == 2 ^ ByteBits
LenRange == Base ^ 4          \* the values of a u32

\* u32::to_be_bytes and u32::from_be_bytes.
ToBeBytes(n) == [i \in 1..4 |-> (n \div Base ^ (4 - i)) % Base]
FromBeBytes(h) == ((h[1] * Base + h[2]) * Base + h[3]) * Base + h[4]

\* Mutation: the header written little-endian.
WriteFrameHeaderLe(size) ==
    [i \in 1..4 |-> ((size % LenRange) \div Base ^ (i - 1)) % Base]

\* write_frame: (data.len() as u32).to_be_bytes(), the length cut to 32 bits.
WriteFrameHeader(size) == ToBeBytes(size % LenRange)

\* Mutation: offsets that count the bodies and forget the 4-byte headers.
FrameStartNoHeader(sizes, i) ==
    FoldLeft(LAMBDA acc, s : acc + s, 0, SubSeq(sizes, 1, i - 1))

\* Offset of frame i in a stream of frames with the given body sizes:
\* write_frame puts 4 header bytes, then the body, for each frame.
FrameStart(sizes, i) ==
    FoldLeft(LAMBDA acc, s : acc + 4 + s, 0, SubSeq(sizes, 1, i - 1))

StreamLen(sizes) == FrameStart(sizes, Len(sizes) + 1)

TypeOK ==
    /\ inFrames \in Seq(RequestSizes) /\ Len(inFrames) <= MaxFrames
    /\ inWritten \in 0..StreamLen(inFrames)
    /\ stdinOpen \in BOOLEAN
    /\ handled \in 0..Len(inFrames)
    /\ session \in {"running", "closed", "failed"}
    /\ outSizes \in Seq(ResponseSizes)
    /\ hostPos \in 0..StreamLen(outSizes)
    /\ decoded \in Seq(0..Len(outSizes))

Init ==
    /\ inFrames = <<>>
    /\ inWritten = 0
    /\ stdinOpen = TRUE
    /\ handled = 0
    /\ session = "running"
    /\ outSizes = <<>>
    /\ hostPos = 0
    /\ decoded = <<>>

(***************************************************************************)
(* The port.                                                              *)
(***************************************************************************)

\* Bytes of stdin written beyond the frame read_frame reads next.
Avail == inWritten - FrameStart(inFrames, handled + 1)

\* The length read_frame decodes from the next frame's header.
NextLen == FromBeBytes(ToBeBytes(inFrames[handled + 1]))

\* Mutation: `>` for `>=`, the body read only once a byte more is there.
ReadFrameStrict ==
    /\ session = "running"
    /\ handled < Len(inFrames)
    /\ Avail >= 4
    /\ Avail > 4 + NextLen
    /\ handled' = handled + 1
    /\ \E r \in ResponseSizes : outSizes' = Append(outSizes, r)
    /\ UNCHANGED <<inFrames, inWritten, stdinOpen, session, hostPos, decoded>>

\* read_frame returns Some(body) once header and body are there; the loop
\* handles it and write_frame sends one response.
ReadFrame ==
    /\ session = "running"
    /\ handled < Len(inFrames)
    /\ Avail >= 4
    /\ Avail >= 4 + NextLen
    /\ handled' = handled + 1
    /\ \E r \in ResponseSizes : outSizes' = Append(outSizes, r)
    /\ UNCHANGED <<inFrames, inWritten, stdinOpen, session, hostPos, decoded>>

\* EOF before 4 header bytes: read_exact fails with UnexpectedEof, which
\* read_frame maps to Ok(None): "stdin closed, shutting down", exit 0.
EofInHeader ==
    /\ session = "running"
    /\ ~stdinOpen
    /\ Avail < 4
    /\ session' = "closed"
    /\ UNCHANGED <<inFrames, inWritten, stdinOpen, handled, outSizes,
                   hostPos, decoded>>

\* EOF inside the body: "reading frame body" error out of main, exit 1.
EofInBody ==
    /\ session = "running"
    /\ ~stdinOpen
    /\ Avail >= 4
    /\ Avail < 4 + NextLen
    /\ session' = "failed"
    /\ UNCHANGED <<inFrames, inWritten, stdinOpen, handled, outSizes,
                   hostPos, decoded>>

(***************************************************************************)
(* The host.                                                              *)
(***************************************************************************)

\* Start a frame once the previous one is fully written, and write its
\* first k bytes (k = 4 + s: all of it).
HostWrite(s, k) ==
    /\ stdinOpen
    /\ inWritten = StreamLen(inFrames)
    /\ Len(inFrames) < MaxFrames
    /\ inFrames' = Append(inFrames, s)
    /\ inWritten' = inWritten + k
    /\ UNCHANGED <<stdinOpen, handled, session, outSizes, hostPos, decoded>>

\* Write the rest of a frame written in part.
HostWriteRest ==
    /\ stdinOpen
    /\ inWritten < StreamLen(inFrames)
    /\ inWritten' = StreamLen(inFrames)
    /\ UNCHANGED <<inFrames, stdinOpen, handled, session, outSizes, hostPos,
                   decoded>>

\* Close stdin, or die, wherever the writing stands.
HostClose ==
    /\ stdinOpen
    /\ stdinOpen' = FALSE
    /\ UNCHANGED <<inFrames, inWritten, handled, session, outSizes, hostPos,
                   decoded>>

\* Parse one frame of stdout.  At a frame boundary the header is the one
\* write_frame produced; anywhere else the 4 bytes are body bytes and read
\* as any length.  A parsed frame is response i only when it starts at
\* response i and spans exactly its body.
HostRead ==
    LET left == StreamLen(outSizes) - hostPos
        at == {i \in 1..Len(outSizes) : FrameStart(outSizes, i) = hostPos}
        lens == IF at = {}
                THEN 0..(LenRange - 1)
                ELSE {FromBeBytes(WriteFrameHeader(outSizes[CHOOSE i \in at : TRUE]))}
    IN  /\ left >= 4
        /\ \E v \in lens :
              /\ left >= 4 + v
              /\ hostPos' = hostPos + 4 + v
              /\ decoded' = Append(decoded,
                     IF \E i \in at : outSizes[i] = v
                     THEN CHOOSE i \in at : TRUE ELSE 0)
        /\ UNCHANGED <<inFrames, inWritten, stdinOpen, handled, session,
                       outSizes>>

Port == ReadFrame \/ EofInHeader \/ EofInBody

Host ==
    \/ \E s \in RequestSizes : \E k \in 1..(4 + s) : HostWrite(s, k)
    \/ HostWriteRest \/ HostClose \/ HostRead

Next == Port \/ Host

\* The loop runs whenever read_exact can return; the host's port driver
\* reads stdout as it arrives.
Spec == Init /\ [][Next]_vars /\ WF_vars(Port) /\ WF_vars(HostRead)

(***************************************************************************)
(* Properties.                                                            *)
(***************************************************************************)

\* Spec 4.4: the host recovers from stdout exactly the responses the port
\* wrote, in order: write_frame's header must describe the body that
\* follows, or the host's parser loses the frame boundaries for good.
HostDecodesResponses == \A i \in 1..Len(decoded) : decoded[i] = i

\* read_exact blocks until a frame is complete, and the loop reads it: a
\* frame the host has written in full (in one write or several) is handled,
\* unless stdin ended inside an earlier frame.
CompleteFramesHandled ==
    \A n \in 1..MaxFrames :
        (n <= Len(inFrames) /\ inWritten >= FrameStart(inFrames, n + 1))
            ~> (handled >= n \/ session = "failed")

\* Spec 6 and 7: exit 0 only on clean EOF; a short read is a fatal framing
\* error.  So a session that ends "closed" has read every byte the host
\* wrote, all of them whole frames.
CleanExitAtFrameBoundary ==
    session = "closed" =>
        /\ inWritten = StreamLen(inFrames)
        /\ handled = Len(inFrames)

=============================================================================
