------------------------------ MODULE Framing ------------------------------
(***************************************************************************)
(* One direction of a tunnel connection through NoiseConn (noise.go) or    *)
(* WSConn (wsframe.go): what is written at one end, what goes over the     *)
(* wire, and what is read at the other end by the two kinds of readers     *)
(* there are.  First one control message is written and read (protocol.go, *)
(* ReadMessage: exact reads of header and payload), then yamux (external)  *)
(* writes frames of any size and reads through a buffer of fixed size.     *)
(*                                                                         *)
(* The frames are data and pings.  Left out are close frames and the pongs *)
(* that a proxy may send of its own accord, which readFrame gives out as   *)
(* data.                                                                   *)
(*                                                                         *)
(* Bytes are numbered as they are written.  On the wire each byte of data  *)
(* is an item; so are the fields of a frame: its header, with opcode, mask *)
(* bit and length, and its mask key.                                       *)
(***************************************************************************)
EXTENDS Integers, Sequences

CONSTANTS
  Kinds,        \* subset of {"noise", "ws"}
  Readers,      \* which end reads: subset of {"client", "server"}
  Pinged,       \* the readers that a proxy pings: readFrame cannot read the
                \* masked pings that the server would get
  HeaderSize,   \* bytes of a control message's header
  PayloadSizes, \* ... and of its payload
  MuxSizes,     \* sizes of yamux's writes
  BufferSize,   \* size of yamux's read buffer
  NoiseWidth,   \* 2^16: the lengths that noise's frame header can hold
  MaxWritten,   \* bound on the bytes written
  MaxPings      \* bound on pings

ASSUME FramingAssumption ==
  /\ Kinds \subseteq {"noise", "ws"}
  /\ Readers \subseteq {"client", "server"} /\ Pinged \subseteq Readers
  /\ HeaderSize \in Nat \ {0} /\ BufferSize \in Nat \ {0} /\ NoiseWidth \in Nat \ {0}
  /\ PayloadSizes \subseteq Nat \ {0} /\ MuxSizes \subseteq Nat \ {0}
  /\ MaxWritten \in Nat /\ MaxPings \in Nat

VARIABLES
  kind,      \* the transport
  reader,    \* the end that reads
  written,   \* bytes written
  items,     \* what is on its way
  writing,   \* what is written next: "header", "payload", "mux"
  reading,   \* what is being read
  payload,   \* size of the control message's payload
  want,      \* bytes that io.ReadFull still wants
  readBuf,   \* WSConn.readBuf from readPos on
  bytesRead,
  garbled,   \* what will be read for a frame's header is none
  pingsSent,
  pongsSent

writerVars == <<kind, reader, written, writing, payload, pingsSent>>
readerVars == <<reading, want, readBuf, bytesRead, garbled, pongsSent>>
frVars == <<kind, reader, written, items, writing, reading, payload, want, readBuf, bytesRead,
            garbled, pingsSent, pongsSent>>

(* A client masks its frames, so those that a server reads are masked.     *)
Masked == reader = "server"

Byte(n) == [type |-> "byte", n |-> n]
MaskKey == [type |-> "mask"]
Header(opcode, masked, length) ==
  [type |-> "header", opcode |-> opcode, masked |-> masked, length |-> length]

MaskOf(masked) == IF masked THEN <<MaskKey>> ELSE <<>>

-----------------------------------------------------------------------------
(* Writing.                                                                *)

Data(n) == [i \in 1..n |-> Byte(written + i)]

(* NoiseConn.Write: the length field has two bytes.                        *)
NoiseFrame(n) == <<Header("data", FALSE, n % NoiseWidth)>> \o Data(n)

(* WSConn.writeFrame: lengths from 126 and from 65536 have longer fields,  *)
(* of 64 bits at most.                                                     *)
WSFrame(n) == <<Header("data", Masked, n)>> \o MaskOf(Masked) \o Data(n)

Write(n) ==
  /\ written + n <= MaxWritten
  /\ written' = written + n
  /\ items' = items \o (IF kind = "noise" THEN NoiseFrame(n) ELSE WSFrame(n))

(* Mutant: header and payload are one Write.                               *)
MutantWriteHeader(n) ==
  /\ writing = "header"
  /\ Write(HeaderSize + n)
  /\ payload' = n
  /\ writing' = "mux"
  /\ UNCHANGED <<kind, reader, pingsSent, readerVars>>

(* WriteMessage makes a Write for the header and one for the payload.      *)
WriteHeader(n) ==
  /\ writing = "header"
  /\ Write(HeaderSize)
  /\ payload' = n
  /\ writing' = "payload"
  /\ UNCHANGED <<kind, reader, pingsSent, readerVars>>

WritePayload ==
  /\ writing = "payload"
  /\ Write(payload)
  /\ writing' = "mux"
  /\ UNCHANGED <<kind, reader, payload, pingsSent, readerVars>>

WriteMux(n) ==
  /\ writing = "mux"
  /\ Write(n)
  /\ UNCHANGED <<kind, reader, writing, payload, pingsSent, readerVars>>

(* A proxy between the two ends (a CDN) sends a ping, with or without data,*)
(* as a client does, masked, or as a server does, not masked.              *)
Ping(n) ==
  /\ kind = "ws"
  /\ reader \in Pinged
  /\ pingsSent < MaxPings
  /\ pingsSent' = pingsSent + 1
  /\ items' = items \o (<<Header("ping", Masked, n)>> \o MaskOf(Masked)
                    \o [i \in 1..n |-> Byte(0)])
  /\ UNCHANGED <<kind, reader, written, writing, payload, readerVars>>

-----------------------------------------------------------------------------
(* Reading.                                                                *)

(* The size of the buffer that Read is called with.                        *)
Space == IF reading = "mux" THEN BufferSize ELSE want

Smaller(a, b) == IF a < b THEN a ELSE b

(* Read returns these bytes; io.ReadFull goes on until it has all it wants.*)
Returns(bytes) ==
  LET rest == want - Len(bytes) IN
  /\ bytesRead' = bytesRead \o [i \in 1..Len(bytes) |-> bytes[i].n]
  /\ IF reading = "mux" \/ rest > 0
       THEN /\ reading' = reading
            /\ want' = IF reading = "mux" THEN 0 ELSE rest
       ELSE /\ reading' = IF reading = "header" THEN "payload" ELSE "mux"
            /\ want' = IF reading = "header" THEN payload ELSE 0

(* A frame of data is complete on the wire: the mask key is as long as the *)
(* header says, and so is the data.                                        *)
FrameReady ==
  /\ items # <<>>
  /\ Head(items).opcode = "data"
  /\ Len(items) >= 1 + Len(MaskOf(Head(items).masked)) + Head(items).length

FrameData ==
  LET start == 1 + Len(MaskOf(Head(items).masked))
  IN  SubSeq(items, start + 1, start + Head(items).length)

AfterFrame ==
  SubSeq(items, 2 + Len(MaskOf(Head(items).masked)) + Head(items).length, Len(items))

(* After a frame the rest of the wire is read as a frame.                  *)
Garbles(rest) == rest # <<>> /\ Head(rest).type # "header"

(* NoiseConn.Read: what does not fit into the caller's buffer is dropped.  *)
NoiseRead ==
  /\ kind = "noise"
  /\ ~garbled
  /\ FrameReady
  /\ items' = AfterFrame
  /\ Returns(SubSeq(FrameData, 1, Smaller(Space, Len(FrameData))))
  /\ garbled' = Garbles(AfterFrame)
  /\ UNCHANGED <<writerVars, readBuf, pongsSent>>

(* WSConn.Read, from its buffer ...                                        *)
WSReadBuffered ==
  LET n == Smaller(Space, Len(readBuf)) IN
  /\ kind = "ws"
  /\ ~garbled
  /\ readBuf # <<>>
  /\ Returns(SubSeq(readBuf, 1, n))
  /\ readBuf' = SubSeq(readBuf, n + 1, Len(readBuf))
  /\ UNCHANGED <<writerVars, items, garbled, pongsSent>>

(* Mutant: what does not fit is dropped, as NoiseConn does.                *)
MutantWSReadFrame ==
  /\ kind = "ws"
  /\ ~garbled
  /\ readBuf = <<>>
  /\ FrameReady
  /\ items' = AfterFrame
  /\ Returns(SubSeq(FrameData, 1, Smaller(Space, Len(FrameData))))
  /\ UNCHANGED <<writerVars, readBuf, garbled, pongsSent>>

(* ... or from a new frame.                                                *)
WSReadFrame ==
  LET n == Smaller(Space, Len(FrameData)) IN
  /\ kind = "ws"
  /\ ~garbled
  /\ readBuf = <<>>
  /\ FrameReady
  /\ items' = AfterFrame
  /\ Returns(SubSeq(FrameData, 1, n))
  /\ readBuf' = SubSeq(FrameData, n + 1, Len(FrameData))
  /\ UNCHANGED <<writerVars, garbled, pongsSent>>

(* Mutant: the ping stays where it is.                                     *)
MutantPingRest == items

(* readFrame reads as many bytes of a ping as its length says and no mask  *)
(* key.                                                                    *)
PingRest == SubSeq(items, 2 + Head(items).length, Len(items))

(* readFrame meets a ping on its way to the next frame and writes a pong.  *)
WSReadPing ==
  /\ kind = "ws"
  /\ ~garbled
  /\ readBuf = <<>>
  /\ items # <<>>
  /\ Head(items).opcode = "ping"
  /\ items' = PingRest
  /\ garbled' = Garbles(PingRest)
  /\ pongsSent' = pongsSent + 1
  /\ UNCHANGED <<writerVars, reading, want, readBuf, bytesRead>>

-----------------------------------------------------------------------------
FRInit ==
  /\ kind \in Kinds
  /\ reader \in Readers
  /\ written = 0
  /\ items = <<>>
  /\ writing = "header"
  /\ reading = "header"
  /\ payload = 0
  /\ want = HeaderSize
  /\ readBuf = <<>>
  /\ bytesRead = <<>>
  /\ garbled = FALSE
  /\ pingsSent = 0
  /\ pongsSent = 0

Writer ==
  \/ \E n \in PayloadSizes : WriteHeader(n)
  \/ WritePayload
  \/ \E n \in MuxSizes : WriteMux(n)

Reader == NoiseRead \/ WSReadBuffered \/ WSReadFrame \/ WSReadPing

FRNext ==
  \/ Writer
  \/ \E n \in 0..1 : Ping(n)
  \/ Reader

FRSpec == FRInit /\ [][FRNext]_frVars

(* The reader's goroutine reads on.                                        *)
FRFairSpec == FRSpec /\ WF_frVars(Reader)

-----------------------------------------------------------------------------
Items ==
  [type : {"byte"}, n : 0..MaxWritten] \cup {MaskKey}
    \cup [type : {"header"}, opcode : {"data", "ping"}, masked : BOOLEAN, length : Nat]

(* In particular io.ReadFull never gets more than it wants.                *)
FRTypeOK ==
  /\ kind \in Kinds /\ reader \in Readers
  /\ written \in 0..MaxWritten
  /\ items \in Seq(Items)
  /\ writing \in {"header", "payload", "mux"}
  /\ reading \in {"header", "payload", "mux"}
  /\ payload \in PayloadSizes \cup {0}
  /\ want \in Nat
  /\ readBuf \in Seq(Items)
  /\ bytesRead \in Seq(0..MaxWritten)
  /\ garbled \in BOOLEAN
  /\ pingsSent \in 0..MaxPings /\ pongsSent \in 0..pingsSent

(* Nothing is lost, doubled or misread so far.                             *)
Transparent == ~garbled /\ \A i \in 1..Len(bytesRead) : bytesRead[i] = i

(* WSConn is a stream: however writes, frames and reads of either size     *)
(* line up, and with pings in between that are not masked, the bytes are   *)
(* read as they were written ...                                           *)
WSTransparent == kind = "ws" => Transparent

(* ... and whenever the writer pauses for good, the reader ends up with    *)
(* all of them.                                                            *)
WSDelivers ==
  []<><<Writer>>_frVars \/ <>[](kind = "ws" => Len(bytesRead) = written)

(* A control message survives either transport: ReadMessage asks for just  *)
(* what WriteMessage put into each frame, and leaves the first yamux frame *)
(* alone although it may be on the wire already.                           *)
ControlIntact ==
  /\ reading # "mux" => Transparent
  /\ reading = "mux" =>
       /\ Len(bytesRead) >= HeaderSize + payload
       /\ \A i \in 1..(HeaderSize + payload) : bytesRead[i] = i

(* "NoiseConn wraps a net.Conn" (noise.go:17): it is one.                  *)
NoiseTransparent == kind = "noise" => Transparent
=============================================================================
