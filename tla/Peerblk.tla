------------------------------ MODULE Peerblk -------------------------------
(***************************************************************************)
(* The data path of one PeerDist block download (net/peerblk.c).  A block  *)
(* comes either raw from the origin server or, encrypted and wrapped in a  *)
(* message, from a peer.  Only a part of it (the trimmed content) belongs  *)
(* to the file: that part goes straight into the file's buffer, and is     *)
(* decrypted there, while the rest of a peer's message is kept in a local  *)
(* buffer.  An attempt counts when the digest of the whole block is right. *)
(*                                                                         *)
(* A byte of the block is its position; its ciphertext is that plus 100.   *)
(* Which peer is tried, and waiting for the raw queue, is in Peermux.      *)
(***************************************************************************)
EXTENDS XferBuf, FiniteSetsExt

CONSTANTS
    BlockLen,   \* range.end - range.start
    Offset,     \* offset of the block's trimmed content in the file
    FileLen,    \* length of the file
    Blocksize,  \* cipher block size (16 in the code)
    ChunkSize,  \* PEERBLK_DECRYPT_CHUNKSIZE
    Claims,     \* data lengths a peer's message may state
    MaxTries,   \* attempts before the download gives up
    MaxFails,   \* how many peers may fail to open in one expiry
    Plaintext   \* whether peers may answer in plaintext

PeerblkAssumption ==
    /\ {BlockLen, Blocksize, FileLen, MaxTries} \subseteq Nat \ {0}
    /\ {Offset, MaxFails} \subseteq Nat
    /\ ChunkSize % Blocksize = 0

VARIABLES
    trim,      \* <<first, end>> of the trimmed content within the block
    at,        \* what the download is doing
    start,     \* start and end of the trimmed content within the stream
    end,
    pos,       \* position in the incoming stream
    msg,       \* what the current server sends
    buffer,    \* data outside the trimmed content
    file,      \* the file's data transfer buffer
    decrypt,   \* descriptors of what is left to decrypt
    cipher_remaining,
    digest_remaining,
    digest,    \* bytes added to the digest
    tries      \* attempts so far

vars == <<trim, at, start, end, pos, msg, buffer, file, decrypt,
          cipher_remaining, digest_remaining, digest, tries>>

-----------------------------------------------------------------------------
(* What the servers send *)

Cipher(k) == 100 + k
Damaged   == 400
Header    == <<201, 202>>     \* transport and message header, block header
Footer    == <<301, 302>>     \* verification length (zero), initialisation vector

DataAt    == Len(Header)      \* offsetof ( msg.block.data )

Padded    == Blocksize * ((BlockLen + Blocksize - 1) \div Blocksize)

Body(n, code(_), bad) == [i \in 1..n |-> IF i = bad THEN Damaged ELSE code(i - 1)]

Id(k) == k

(* A peer's message holds the padded ciphertext, perhaps damaged, perhaps  *)
(* cut off, and states some data length; a plaintext message has no        *)
(* initialisation vector.                                                  *)
PeerMessages ==
    LET Whole(bad) == Header \o Body(Padded, Cipher, bad) \o Footer
    IN  { [plain |-> FALSE, claim |-> c, stream |-> SubSeq(Whole(bad), 1, cut)] :
            c \in Claims, bad \in {0, 1}, cut \in {1, 4, Len(Whole(0)) - 1, Len(Whole(0))} }
        \cup { [plain |-> TRUE, claim |-> BlockLen,
                stream |-> Header \o Body(BlockLen, Id, bad) \o <<301>>] :
                 bad \in IF Plaintext THEN {0, 1} ELSE {} }

RawStreams ==
    { [plain |-> TRUE, claim |-> n, stream |-> Body(n, Id, bad)] :
        n \in {BlockLen - 1, BlockLen, BlockLen + 1}, bad \in {0, BlockLen} }

NoMessage == [plain |-> FALSE, claim |-> 0, stream |-> <<>>]

cipher_decrypt(v) == IF v \in 100..199 THEN v - 100 ELSE Damaged

RightDigest == [i \in 1..BlockLen |-> i - 1]

NoDecrypt == [i \in 1..3 |-> [offset |-> 0, len |-> 0]]

-----------------------------------------------------------------------------
Init ==
    /\ trim \in { t \in (0..BlockLen) \X (0..BlockLen) : t[1] < t[2] }
    /\ at = "wait"
    /\ start = trim[1] /\ end = trim[2]
    /\ pos = 0
    /\ msg = NoMessage
    /\ buffer = EmptyBuffer
    /\ file = xferbuf_ensure_size(EmptyBuffer, FileLen)
    /\ decrypt = NoDecrypt
    /\ cipher_remaining = 0 /\ digest_remaining = 0
    /\ digest = <<>>
    /\ tries = 0

(* The attempt's data; the thresholds are set by the caller *)
peerblk_reset ==
    /\ pos' = 0
    /\ buffer' = EmptyBuffer
    /\ digest' = <<>>
    /\ UNCHANGED <<decrypt, cipher_remaining, digest_remaining>>

peerblk_offset(p) == (p - start) + Offset

(* The file after the delivery of the part of "bytes", received at "p",    *)
(* that lies within the trimmed content                                    *)
peerblk_deliver(bytes, p) ==
    LET lo == Max({p, start})
        hi == Min({p + Len(bytes), end})
    IN  IF hi <= lo THEN file
        ELSE xferbuf_deliver(file, peerblk_offset(lo), SubSeq(bytes, lo - p + 1, hi - p))

(* Mutant: the digest is not looked at *)
DoneUnchecked(ok) ==
    IF ok THEN at' = "done" /\ UNCHANGED <<start, end>> /\ peerblk_reset
    ELSE at' = "wait" /\ start' = trim[1] /\ end' = trim[2] /\ peerblk_reset

(* The attempt has ended: success only with the right digest, otherwise    *)
(* the timer is started for an immediate retry                             *)
peerblk_done(ok) ==
    IF ok /\ digest = RightDigest
    THEN at' = "done" /\ UNCHANGED <<start, end>> /\ peerblk_reset
    ELSE at' = "wait" /\ start' = trim[1] /\ end' = trim[2] /\ peerblk_reset

(* Every attempt to open a retrieval moves the thresholds by the header,    *)
(* whether or not it succeeds                                              *)
RetrievalShift(attempts) == DataAt * attempts

(* Expiry: whatever is under way is abandoned.  Then "fails" peers cannot  *)
(* be opened, each adding the header to the thresholds all the same, and   *)
(* either the next one answers or the block is downloaded raw.             *)
peerblk_expired ==
    /\ at \in {"wait", "retrieval", "raw"}
    /\ peerblk_reset
    /\ \/ /\ tries = MaxTries
          /\ at' = "failed"
          /\ msg' = NoMessage
          /\ start' = trim[1] /\ end' = trim[2]
          /\ UNCHANGED tries
       \/ /\ tries < MaxTries
          /\ tries' = tries + 1
          /\ \E fails \in 0..MaxFails, kind \in {"retrieval", "raw"} :
                LET shift == RetrievalShift(IF kind = "retrieval" THEN fails + 1 ELSE fails)
                IN  /\ at' = kind
                    /\ msg' \in IF kind = "retrieval" THEN PeerMessages ELSE RawStreams
                    /\ start' = trim[1] + shift
                    /\ end' = trim[2] + shift
    /\ UNCHANGED <<trim, file>>

-----------------------------------------------------------------------------
(* Raw attempts *)

peerblk_raw_rx(n) ==
    /\ at = "raw"
    /\ pos + n <= Len(msg.stream)
    /\ LET bytes == SubSeq(msg.stream, pos + 1, pos + n)
       IN  /\ digest' = digest \o bytes
           /\ file' = peerblk_deliver(bytes, pos)
    /\ pos' = pos + n
    /\ UNCHANGED <<trim, at, start, end, msg, buffer, decrypt, cipher_remaining,
                   digest_remaining, tries>>

peerblk_raw_close(ok) ==
    /\ at = "raw"
    /\ ok => pos = Len(msg.stream)
    /\ peerblk_done(ok)
    /\ UNCHANGED <<trim, msg, file, tries>>

-----------------------------------------------------------------------------
(* Attempts by the retrieval protocol *)

(* The local buffer with what lies before and after the trimmed content *)
Keep(bytes) ==
    LET n      == Len(bytes)
        before == Min({n, Max({start - pos, 0})})
        after  == Min({n, Max({pos + n - end, 0})})
        cut    == end - start
        b      == IF before = 0 THEN buffer
                  ELSE xferbuf_deliver(buffer, pos, SubSeq(bytes, 1, before))
    IN  IF after = 0 THEN b
        ELSE xferbuf_deliver(b, pos + n - after - cut, SubSeq(bytes, n - after + 1, n))

peerblk_retrieval_rx(n) ==
    /\ at = "retrieval"
    /\ pos + n <= Len(msg.stream)
    /\ LET bytes == SubSeq(msg.stream, pos + 1, pos + n)
       IN  /\ buffer' = Keep(bytes)
           /\ file' = peerblk_deliver(bytes, pos)
    /\ pos' = pos + n
    /\ UNCHANGED <<trim, at, start, end, msg, decrypt, cipher_remaining,
                   digest_remaining, digest, tries>>

(* Header, block details, and the lengths left when the trimmed content,   *)
(* which is in the file, is taken out                                      *)
buf_len == msg.claim - (end - start)

peerblk_parse_header == buffer.len >= 1 /\ buffer.data[1] = Header[1]

peerblk_parse_block ==
    /\ buffer.len >= DataAt
    /\ buffer.data[2] = Header[2]
    /\ msg.claim >= BlockLen

Describe ==
    << [offset |-> DataAt, len |-> start - DataAt],
       [offset |-> peerblk_offset(start), len |-> end - start],
       [offset |-> start, len |-> (DataAt + buf_len - start) % SizeSpace] >>

peerblk_parse_useless ==
    /\ buffer.len >= DataAt + buf_len + 1
    /\ buffer.data[DataAt + buf_len + 1] = Footer[1]

peerblk_parse_iv ==
    /\ buffer.len >= DataAt + buf_len + 2
    /\ buffer.data[DataAt + buf_len + 2] = Footer[2]

(* The message has ended: it is checked and decryption starts, or, for a   *)
(* plaintext message, the attempt ends as it is                            *)
peerblk_retrieval_close(ok) ==
    /\ at = "retrieval"
    /\ ok => pos = Len(msg.stream)
    /\ LET block == ok /\ peerblk_parse_header /\ peerblk_parse_block
           rest  == /\ block /\ ~msg.plain
                    /\ peerblk_parse_useless /\ peerblk_parse_iv
                    /\ msg.claim % Blocksize = 0
       IN  \/ /\ rest
              /\ at' = "decrypt"
              /\ decrypt' = Describe
              /\ cipher_remaining' = msg.claim
              /\ digest_remaining' = BlockLen
              /\ UNCHANGED <<start, end, pos, buffer, digest>>
           \/ /\ ~rest
              /\ peerblk_done(block /\ msg.plain)
    /\ UNCHANGED <<trim, msg, file, tries>>

(* How much of the next "len" bytes each of the three buffers holds *)
Fragments(len) ==
    LET f1 == Min({decrypt[1].len, len})
        f2 == Min({decrypt[2].len, len - f1})
        f3 == Min({decrypt[3].len, len - f1 - f2})
    IN  <<f1, f2, f3>>

xferbuf_read(b, offset, len) == SubSeq(b.data, offset + 1, offset + len)

Readable(b, offset, len) == len = 0 \/ offset + len <= b.len

(* peerblk_decrypt_write()'s update of the descriptors *)
Advance(f) ==
    [i \in 1..3 |-> [offset |-> decrypt[i].offset + f[i],
                     len |-> decrypt[i].len - f[i]]]

(* One chunk: read from the buffers in turn, decrypt, digest, write back *)
peerblk_decrypt ==
    /\ at = "decrypt"
    /\ LET n    == Min({ChunkSize, cipher_remaining})
           d    == Min({n, digest_remaining})
           f    == Fragments(n)
           in   == <<buffer, file, buffer>>
           read == xferbuf_read(in[1], decrypt[1].offset, f[1])
                   \o xferbuf_read(in[2], decrypt[2].offset, f[2])
                   \o xferbuf_read(in[3], decrypt[3].offset, f[3])
           data == [i \in 1..Len(read) |-> cipher_decrypt(read[i])]
           b1   == xferbuf_deliver(buffer, decrypt[1].offset, SubSeq(data, 1, f[1]))
       IN  IF \A i \in 1..3 : Readable(in[i], decrypt[i].offset, f[i])
           THEN /\ file' = xferbuf_deliver(file, decrypt[2].offset,
                                           SubSeq(data, f[1] + 1, f[1] + f[2]))
                /\ LET digested == digest \o SubSeq(data, 1, d)
                       over     == cipher_remaining = n
                       right    == over /\ digested = RightDigest
                   IN  /\ at' = IF ~over THEN at ELSE IF right THEN "done" ELSE "wait"
                       /\ start' = IF over /\ ~right THEN trim[1] ELSE start
                       /\ end' = IF over /\ ~right THEN trim[2] ELSE end
                       /\ pos' = IF over THEN 0 ELSE pos
                       /\ buffer' = IF over THEN EmptyBuffer
                                    ELSE xferbuf_deliver(b1, decrypt[3].offset,
                                           SubSeq(data, f[1] + f[2] + 1, n))
                       /\ digest' = IF over THEN <<>> ELSE digested
                /\ decrypt' = Advance(f)
                /\ cipher_remaining' = cipher_remaining - n
                /\ digest_remaining' = digest_remaining - d
           ELSE peerblk_done(FALSE) /\ UNCHANGED file
    /\ UNCHANGED <<trim, msg, tries>>

Ended == at \in {"done", "failed"} /\ UNCHANGED vars

Next ==
    \/ peerblk_expired
    \/ \E n \in 1..Len(msg.stream) : peerblk_raw_rx(n)
    \/ \E n \in 1..Len(msg.stream) : peerblk_retrieval_rx(n)
    \/ \E ok \in BOOLEAN : peerblk_raw_close(ok)
    \/ \E ok \in BOOLEAN : peerblk_retrieval_close(ok)
    \/ peerblk_decrypt
    \/ Ended

Spec == Init /\ [][Next]_vars

-----------------------------------------------------------------------------
(* A block that ended well (peerblk_close with no error, after its digest  *)
(* was found right) left exactly its trimmed content in the file, each     *)
(* byte in its place: the digest covers what the file got, however the     *)
(* stream was cut into packets and whichever attempts failed before.       *)
DeliveredIsExact ==
    at = "done" =>
        \A k \in trim[1]..(trim[2] - 1) : file.data[Offset + k - trim[1] + 1] = k

(* Whatever a server sends, peerblk_deliver() and the decryption write     *)
(* nowhere but in the block's own part of the file, so block downloads     *)
(* that run side by side cannot spoil each other's data.                   *)
OwnPartOnly ==
    /\ file.len = FileLen
    /\ \A i \in 1..FileLen :
          i \notin (Offset + 1)..(Offset + trim[2] - trim[1]) => file.data[i] = Unwritten

(* While peerblk_decrypt() runs, the three buffers hold exactly what is    *)
(* left to decrypt: its loops never run past the last descriptor, and      *)
(* there is always enough ciphertext for the digest.                       *)
BuffersCover ==
    at = "decrypt" =>
        /\ decrypt[1].len + decrypt[2].len + decrypt[3].len = cipher_remaining
        /\ cipher_remaining >= digest_remaining
        /\ cipher_remaining > 0
=============================================================================
