---------------------------- MODULE Conversions ----------------------------
(***************************************************************************)
(* Pure algorithms of the libraries, each checked against what it is for   *)
(* over bounded inputs that hold its boundaries: base64url and UTF-8 of    *)
(* auth-js, the frames of the serializer of realtime-js, and the paths of  *)
(* storage-js.  Characters and bytes are numbers; a text whose characters  *)
(* do not matter is its length.                                            *)
(***************************************************************************)
EXTENDS Integers, Sequences, SequencesExt, FiniteSets

Prefix(set, n) == UNION {[1..k -> set] : k \in 0..n}
-----------------------------------------------------------------------------
(* base64url.  Bits above the queued ones are never read: the queue keeps 20 bits here and 32 in
   JavaScript. *)
Low(n, bits) == n % (2 ^ bits)
High(queue, queued, bits) == Low(queue \div (2 ^ (queued - bits)), bits)

NoBits == [queue |-> 0, queuedBits |-> 0, out |-> <<>>]

\* Takes units of some bits from the queue while there are enough.
Emit(state, bits) ==
    LET n == state.queuedBits \div bits
        Unit(i) == High(state.queue, state.queuedBits - (i - 1) * bits, bits)
    IN  [state EXCEPT !.queuedBits = @ - n * bits, !.out = @ \o [i \in 1..n |-> Unit(i)]]

Queue(state, unit, bits) ==
    [state EXCEPT !.queue = Low(@, 12) * (2 ^ bits) + unit, !.queuedBits = @ + bits]

byteToBase64URL(state, byte) == Emit(Queue(state, byte, 8), 6)

\* byteToBase64URL(null): what is left is padded with zero bits.
flushBase64URL(state) ==
    IF state.queuedBits = 0 THEN state
    ELSE Emit([state EXCEPT !.queue = Low(@, 12) * (2 ^ (6 - state.queuedBits)), !.queuedBits = 6], 6)

byteFromBase64URL(state, char) == Emit(Queue(state, char, 6), 8)

bytesToBase64URL(bytes) == flushBase64URL(FoldLeft(byteToBase64URL, NoBits, bytes)).out
base64UrlToUint8Array(chars) == FoldLeft(byteFromBase64URL, NoBits, chars).out

SomeBytes == {0, 1, 3, 4, 63, 64, 127, 128, 170, 252, 255}

\* Bytes come back from base64url, which is as short as can be.
Base64RoundTrip ==
    \A bytes \in Prefix(SomeBytes, 3) :
        /\ base64UrlToUint8Array(bytesToBase64URL(bytes)) = bytes
        /\ Len(bytesToBase64URL(bytes)) = (8 * Len(bytes) + 5) \div 6
-----------------------------------------------------------------------------
(* UTF-8. *)
Continuation(codepoint, place) == 128 + Low(codepoint \div (64 ^ place), 6)

codepointToUTF8(codepoint) ==
    CASE codepoint <= 127 -> <<codepoint>>
      [] codepoint \in 128..2047 -> <<192 + codepoint \div 64, Continuation(codepoint, 0)>>
      [] codepoint \in 2048..65535 ->
            <<224 + codepoint \div (64 ^ 2), Continuation(codepoint, 1), Continuation(codepoint, 0)>>
      [] OTHER -> <<240 + codepoint \div (64 ^ 3), Continuation(codepoint, 2),
                    Continuation(codepoint, 1), Continuation(codepoint, 0)>>

\* A high surrogate is combined with what follows it, whatever that is.
IsHigh(unit) == unit \in 55296..56319
codepointOf(units, i) ==
    IF IsHigh(units[i]) THEN (units[i] - 55296) * 1024 + Low(units[i + 1] - 56320, 10) + 65536 ELSE units[i]

stringToUTF8(units) ==
    LET Starts(i) == i = 1 \/ ~IsHigh(units[i - 1])
        at == SelectSeq([i \in DOMAIN units |-> i], Starts)
    IN  FlattenSeq([i \in DOMAIN at |-> codepointToUTF8(codepointOf(units, at[i]))])

Failed == -1
NoSequence == [utf8seq |-> 0, codepoint |-> 0, out |-> <<>>]

LeadingBits(byte) ==
    CASE byte \in 128..191 -> 1 [] byte \in 192..223 -> 2 [] byte \in 224..239 -> 3
      [] byte \in 240..247 -> 4 [] OTHER -> 5

stringFromUTF8(state, byte) ==
    LET codepoint == state.codepoint * 64 + Low(byte, 6)
    IN  CASE state.utf8seq = Failed \/ (state.utf8seq = 0 /\ byte <= 127) ->
                IF state.utf8seq = Failed THEN state ELSE [state EXCEPT !.out = Append(@, byte)]
          [] state.utf8seq = 0 /\ byte > 127 ->
                IF LeadingBits(byte) \in 2..4
                THEN [state EXCEPT !.utf8seq = LeadingBits(byte) - 1,
                                   !.codepoint = Low(byte, 7 - LeadingBits(byte))]
                ELSE [state EXCEPT !.utf8seq = Failed]
          [] state.utf8seq > 0 /\ byte <= 127 -> [state EXCEPT !.utf8seq = Failed]
          [] state.utf8seq = 1 /\ byte > 127 ->
                [state EXCEPT !.utf8seq = 0, !.codepoint = codepoint, !.out = Append(@, codepoint)]
          [] OTHER -> [state EXCEPT !.utf8seq = @ - 1, !.codepoint = codepoint]

decodeUTF8(bytes) == FoldLeft(stringFromUTF8, NoSequence, bytes)

SomeCodepoints == {0, 65, 127, 128, 2047, 2048, 55295, 57344, 65535, 65536, 131072, 1114111}

UTF16(codepoint) ==
    IF codepoint < 65536 THEN <<codepoint>>
    ELSE <<55296 + (codepoint - 65536) \div 1024, 56320 + ((codepoint - 65536) % 1024)>>

\* Text without lone surrogates comes back from UTF-8, also by way of base64url.
UTF8RoundTrip ==
    \A text \in Prefix(SomeCodepoints, 2) :
        LET bytes == stringToUTF8(FlattenSeq([i \in DOMAIN text |-> UTF16(text[i])]))
        IN  /\ decodeUTF8(bytes).out = text /\ decodeUTF8(bytes).utf8seq = 0
            /\ base64UrlToUint8Array(bytesToBase64URL(bytes)) = bytes

\* Bytes that are cut off within the last character decode to the characters before it.
UTF8Prefix ==
    \A text \in Prefix(SomeCodepoints, 2) \ {<<>>} :
        LET bytes == FlattenSeq([i \in DOMAIN text |-> codepointToUTF8(text[i])])
        IN  decodeUTF8(Front(bytes)).out = Front(text)
-----------------------------------------------------------------------------
(* The binary frames of the serializer.  A header has the lengths of the parts that follow it
   in one byte each, as setUint8 stores them; the rest of the frame is the payload.  Pushes that
   are sent have a ref; those that come have none. *)
setUint8(n) == n % 256

Frame(parts, extra, payload) ==
    [sizes |-> [i \in DOMAIN parts |-> setUint8(parts[i])],
     header |-> 1 + Len(parts) + extra,
     length |-> 1 + Len(parts) + extra + FoldLeft(+, 0, parts) + payload]

\* join_ref, ref, topic, event; for a broadcast of the user also its encoding.
_binaryEncodePush(parts, payload) == Frame(parts, 0, payload)
_encodeUserBroadcastPush(parts, payload) == Frame(parts, 1, payload)

\* Where a reader of the frame has the parts and the payload.
Offset(frame, i) == frame.header + FoldLeft(+, 0, SubSeq(frame.sizes, 1, i - 1))
Slices(frame) ==
    [i \in 1..Len(frame.sizes) + 1 |->
        IF i > Len(frame.sizes) THEN <<Offset(frame, i), frame.length>>
        ELSE <<Offset(frame, i), Offset(frame, i + 1)>>]

\* The offsets that the decoders compute, with HEADER_LENGTH 1 and META_LENGTH 4.
_decodePush(sizes, length) == Slices([sizes |-> sizes, header |-> 1 + 4 - 1, length |-> length])
_decodeReply(sizes, length) == Slices([sizes |-> sizes, header |-> 1 + 4, length |-> length])
_decodeBroadcast(sizes, length) == Slices([sizes |-> sizes, header |-> 1 + 2, length |-> length])
_decodeUserBroadcast(sizes, length) == Slices([sizes |-> sizes, header |-> 1 + 4, length |-> length])

\* What the writer of a frame put where.
Written(header, parts, payload) ==
    LET At(i) == header + FoldLeft(+, 0, SubSeq(parts, 1, i - 1))
    IN  [i \in 1..Len(parts) + 1 |->
            IF i > Len(parts) THEN <<At(i), At(i) + payload>> ELSE <<At(i), At(i + 1)>>]

Lengths == {0, 1, 255, 256}
Fits(parts) == \A i \in DOMAIN parts : parts[i] < 256

\* A frame reads as it was written exactly if all its parts have at most 255 characters: a longer
\* topic or event shifts all that follows.
FramesReadAsWritten ==
    \A parts \in [1..4 -> Lengths], payload \in {0, 3} :
        /\ (Slices(_binaryEncodePush(parts, payload)) = Written(5, parts, payload)) <=> Fits(parts)
        /\ (Slices(_encodeUserBroadcastPush(parts, payload)) = Written(6, parts, payload)) <=> Fits(parts)

\* The decoders find the parts of the frames that the server writes: a byte for the kind, one for
\* each length, one more for the encoding of a user broadcast.
DecodersFindParts ==
    LET Total(header, parts) == header + FoldLeft(+, 0, parts) + 3
    IN  \A parts \in [1..4 -> Lengths \ {256}] :
          LET three == SubSeq(parts, 1, 3)
              two == SubSeq(parts, 1, 2)
          IN  /\ _decodePush(three, Total(4, three)) = Written(4, three, 3)
              /\ _decodeReply(parts, Total(5, parts)) = Written(5, parts, 3)
              /\ _decodeBroadcast(two, Total(3, two)) = Written(3, two, 3)
              /\ _decodeUserBroadcast(three, Total(5, three)) = Written(5, three, 3)
-----------------------------------------------------------------------------
(* Paths of storage-js: sequences of slashes and other characters. *)
Path == Prefix({"/", "a"}, 6)

IsSlash(path, i) == i \in DOMAIN path /\ path[i] = "/"
Indices(path) == [i \in DOMAIN path |-> i]
Keep(path, Test(_)) == LET at == SelectSeq(Indices(path), Test) IN [i \in DOMAIN at |-> path[at[i]]]

\* One slash at either end goes, then runs of slashes become one.
TrimSlash(path) ==
    LET Inner(i) == ~(IsSlash(path, i) /\ i \in {1, Len(path)}) IN Keep(path, Inner)
Collapse(path) == LET First(i) == ~(IsSlash(path, i) /\ IsSlash(path, i - 1)) IN Keep(path, First)
_removeEmptyFolders(path) == Collapse(TrimSlash(path))

\* All slashes at the beginning go; the bucket comes before.
_getFinalPath(path) ==
    LET Later(i) == \E j \in 1..i : ~IsSlash(path, j) IN Keep(path, Later)

\* The object that upload writes, the path that it returns, and the object that download, info,
\* exists and the signed URLs ask for, _getFinalPath of theirs; move, copy and remove take a path
\* as it is.
Uploaded(path) == _getFinalPath(_removeEmptyFolders(path))
Returned(path) == _removeEmptyFolders(path)

LeadingSlashes(path) == Len(path) - Len(_getFinalPath(path))

\* The path that upload returns names what it wrote in every method that drops leading slashes;
\* in those that take a path as it is unless the path given began with two slashes or more; and
\* in another upload unless it ended with two slashes or more.
ReturnedNamesUploaded ==
    \A path \in Path :
        /\ _getFinalPath(Returned(path)) = Uploaded(path)
        /\ Returned(path) = Uploaded(path) <=> LeadingSlashes(TrimSlash(path)) = 0
        /\ Uploaded(Returned(path)) = Uploaded(path) <=> ~IsSlash(Uploaded(path), Len(Uploaded(path)))

\* The path given to upload names what it wrote in the methods that drop leading slashes exactly
\* if it has no slash at its end and no two slashes within: those they leave alone.
GivenNamesUploaded ==
    \A path \in Path :
        LET inner == _getFinalPath(path)
        IN  _getFinalPath(path) = Uploaded(path) <=> Collapse(inner) = inner /\ ~IsSlash(inner, Len(inner))
-----------------------------------------------------------------------------
ASSUME Base64Checked == Base64RoundTrip
ASSUME UTF8Checked == UTF8RoundTrip /\ UTF8Prefix
ASSUME FramesChecked == FramesReadAsWritten /\ DecodersFindParts
ASSUME PathsChecked == ReturnedNamesUploaded /\ GivenNamesUploaded
=============================================================================
