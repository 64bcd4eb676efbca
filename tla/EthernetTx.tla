----------------------------- MODULE EthernetTx -----------------------------
(***************************************************************************)
(* One EthernetTx::send of a BasicEthernetPayload                           *)
(* (src/src/ethernet/ethernet_tx.rs): the datalink is asked for `packets`  *)
(* frames of header + `size` bytes, and for each one EthernetBuilder::build *)
(* writes the header and lets the payload fill the payload region.         *)
(* BasicEthernetPayload keeps an offset, so consecutive frames carry        *)
(* consecutive slices of the vector; bytes of the region the payload does  *)
(* not reach keep whatever the datalink buffer held (Junk).                 *)
(***************************************************************************)
EXTENDS Naturals, Sequences

CONSTANTS
    Bytes,       \* byte values of the model
    Junk,        \* content of a buffer byte nobody wrote
    MaxPayload,  \* bound: length of the payload vector
    Sizes,       \* `size` arguments of send (payload region per frame)
    MaxPackets   \* bound: `packets` argument of send

ASSUME EthernetAssumption ==
    /\ Junk \notin Bytes
    /\ MaxPayload \in Nat
    /\ Sizes \subseteq Nat
    /\ MaxPackets \in Nat

VARIABLES
    payload,  \* BasicEthernetPayload.payload
    offset,   \* BasicEthernetPayload.offset
    size,     \* size argument of EthernetTxImpl::send
    left,     \* frames build_and_send has still to fill
    frames    \* payload regions of the frames filled so far

vars == <<payload, offset, size, left, frames>>

(* Payload vectors of at most MaxPayload bytes. *)
Payloads == UNION {[1 .. m -> Bytes] : m \in 0 .. MaxPayload}

-----------------------------------------------------------------------------
(* BasicEthernetPayload::build into a buffer of buflen bytes: copies         *)
(* payload[start..end) with end = min(start + buflen, len) and moves the   *)
(* offset to end.                                                           *)
BuildEnd(p, start, buflen) ==
    IF start + buflen < Len(p) THEN start + buflen ELSE Len(p)

Build(p, start, buflen) == SubSeq(p, start + 1, BuildEnd(p, start, buflen))

(* Variant of Region where only the bytes build wrote go on the wire. *)
RegionUnpadded(chunk, buflen) == chunk

(* The payload region of a frame after build: the copied bytes first, the *)
(* rest of the `size` bytes untouched.                                     *)
Region(chunk, buflen) ==
    chunk \o [i \in 1 .. (buflen - Len(chunk)) |-> Junk]

-----------------------------------------------------------------------------
(* BasicEthernetPayload::new(ether_type, payload) then                     *)
(* EthernetTxImpl::send(packets, size, payload).                           *)
Init ==
    /\ payload \in Payloads
    /\ offset = 0
    /\ size \in Sizes
    /\ left \in 0 .. MaxPackets
    /\ frames = <<>>

(* Variant of FillFrame whose build copies the slice but never moves the *)
(* offset.                                                              *)
FillFrameNoAdvance ==
    /\ left > 0
    /\ frames' = Append(frames, Region(Build(payload, offset, size), size))
    /\ left' = left - 1
    /\ UNCHANGED <<payload, offset, size>>

(* One frame of build_and_send: EthernetBuilder::build writes the header  *)
(* and calls payload.build on the payload region (total_size = size +     *)
(* header, so the region is `size` bytes).                               *)
FillFrame ==
    /\ left > 0
    /\ frames' = Append(frames, Region(Build(payload, offset, size), size))
    /\ offset' = BuildEnd(payload, offset, size)
    /\ left' = left - 1
    /\ UNCHANGED <<payload, size>>

Next == FillFrame

Spec == Init /\ [][Next]_vars

-----------------------------------------------------------------------------
(* Every variable holds a value of its type; every frame has a payload *)
(* region of `size` bytes, as build_and_send allocates it.            *)
TypeOK ==
    /\ payload \in Payloads
    /\ offset \in 0 .. Len(payload)
    /\ size \in Sizes
    /\ left \in 0 .. MaxPackets
    /\ frames \in Seq(Seq(Bytes \cup {Junk}))
    /\ \A k \in 1 .. Len(frames) : Len(frames[k]) = size

(* Reference: the k-th frame's payload region holds bytes                 *)
(* (k-1)*size+1 .. k*size of the vector, the positions past its end left  *)
(* unwritten. Streaming through the offset must agree with it in every    *)
(* frame, including the empty and the partly filled last ones.           *)
FramesCarryPayload ==
    \A k \in 1 .. Len(frames), j \in 1 .. size :
        LET idx == (k - 1) * size + j IN
        frames[k][j] = IF idx <= Len(payload) THEN payload[idx] ELSE Junk

=============================================================================
