------------------------------- MODULE Codecs -------------------------------
(***************************************************************************)
(* The encodings of a Comet, each run against a reference: the list of     *)
(* instances (base/util.cc), base64 (base/base64.cpp), the configuration   *)
(* file (base/config_file_reader.cc), MD5 over pieces (base/md5.cc),       *)
(* WebSocket frames (service/websocket_conn.cc), the words of a Redis      *)
(* command (redis/hiredis.c) and replies over pieces (RedisReader).        *)
(*                                                                         *)
(* Text is a sequence of one-character strings, bytes are numbers; sizes   *)
(* of buffers, words and bytes are parameters.  A behaviour is one job.    *)
(***************************************************************************)
EXTENDS RedisReader

CONSTANTS
    Jobs,           \* the jobs: [fn, input]
    LineSize,       \* config_file_reader.cc: 256, the buffer of fgets
    PairSize,       \* config_file_reader.cc: 128, the buffer of snprintf
    BlockSize,      \* md5.cc: 64, the bytes of a block
    Word,           \* md5.cc: 2^32, the values of a word of _count
    ByteBase        \* websocket_conn.cc: 256, the values of a byte

VARIABLES
    job,            \* what is computed
    left,           \* the part of its input that was not given yet
    out             \* the value computed so far

codecsVars == <<job, left, out>>

(***************************************************************************)
(* CStrExplode: how many items it announces and those it fills in.  A      *)
(* separator at the start of an item does not end it.                      *)
(***************************************************************************)

Separator == ","        \* of every call
Separators(s) == {i \in DOMAIN s : s[i] = Separator}

Filled(s) ==        \* the items ended by a separator, and where the rest starts
    LET filled[i \in 0..Len(s)] ==
            IF i = 0 THEN [items |-> <<>>, start |-> 1]
            ELSE LET a == filled[i - 1]
                 IN  IF i # a.start /\ s[i] = Separator
                     THEN [items |-> Append(a.items, SubSeq(s, a.start, i - 1)), start |-> i + 1]
                     ELSE a
    IN  filled[Len(s)]

\* Mutant: the rest after the last separator is not an item.
ExplodeWithoutRest(s) == [count |-> Cardinality(Separators(s)) + 1, items |-> Filled(s).items]

Explode(s) ==
    LET rest == SubSeq(s, Filled(s).start, Len(s))
    IN  [count |-> Cardinality(Separators(s)) + 1,
         items |-> Filled(s).items \o (IF rest = <<>> THEN <<>> ELSE <<rest>>)]

(***************************************************************************)
(* base64_encode: numbers of characters, 64 for '='.                       *)
(***************************************************************************)

\* the four sextets of three bytes
Sextets(a, b, c) == <<a \div 4, (a % 4) * 16 + b \div 16, (b % 16) * 4 + c \div 64, c % 64>>

\* Mutant: a last group writes as many characters as it has bytes.
LettersShort(n) == n
Letters(n) == IF n >= 3 THEN 4 ELSE n + 1       \* characters for n bytes

Base64(data) ==
    LET byte(i) == IF i \in DOMAIN data THEN data[i] ELSE 0
        group(k) == Sextets(byte(3 * k + 1), byte(3 * k + 2), byte(3 * k + 3))
        letter(k, j) == IF j <= Letters(Len(data) - 3 * k) THEN group(k)[j] ELSE 64
    IN  [i \in 1..4 * ((Len(data) + 2) \div 3) |-> letter((i - 1) \div 4, ((i - 1) % 4) + 1)]

\* reference: four characters make three bytes, without those that are padded
Decode64(s) ==
    LET quad(k) == SubSeq(s, 4 * k + 1, 4 * k + 4)
        bytes(q) == <<4 * q[1] + (q[2] \div 16), (q[2] % 16) * 16 + (q[3] \div 4), (q[3] % 4) * 64 + q[4]>>
        padded == Cardinality({i \in DOMAIN s : s[i] = 64})
    IN  [i \in 1..3 * (Len(s) \div 4) - padded |-> bytes(quad((i - 1) \div 3))[((i - 1) % 3) + 1]]

(***************************************************************************)
(* CConfigFileReader: a file is a text with "\n" in it, the map a set of   *)
(* pairs.                                                                  *)
(***************************************************************************)

LineEnd == "\n"
Hash == "#"
Equals == "="
Blank == " "        \* a tab counts as one

\* fgets: up to a line's end or as much as the buffer holds
Gets(file) ==
    LET ends == {i \in DOMAIN file : file[i] = LineEnd} \cup {Len(file), LineSize - 1}
    IN  SubSeq(file, 1, Min(ends))

\* one turn of the loop, which ends with the file
ReadLine(a) ==
    IF a.rest = <<>> THEN a
    ELSE LET line == Gets(a.rest)
         IN  [lines |-> Append(a.lines, line),
              rest |-> SubSeq(a.rest, Len(line) + 1, Len(a.rest))]

LinesOf(file) ==
    LET read[i \in 0..Len(file)] ==
            IF i = 0 THEN [lines |-> <<>>, rest |-> file] ELSE ReadLine(read[i - 1])
    IN  read[Len(file)].lines

\* a text is cut at the first of these characters, if there is one
FirstPlace(s, c) == Min({i \in DOMAIN s : s[i] = c})
Before(s, c) == IF Contains(s, c) THEN SubSeq(s, 1, FirstPlace(s, c) - 1) ELSE s
After(s, c) == SubSeq(s, FirstPlace(s, c) + 1, Len(s))

TrimSpace(s) ==
    LET kept == {i \in DOMAIN s : s[i] # Blank}
    IN  IF kept = {} THEN <<>> ELSE SubSeq(s, Min(kept), Max(kept))

ParseLine(line) ==
    LET l == Before(Before(line, LineEnd), Hash)
    IN  IF Contains(l, Equals) THEN <<TrimSpace(Before(l, Equals)), TrimSpace(After(l, Equals))>>
        ELSE <<<<>>, <<>>>>

\* insert keeps the value a key has
Inserted(map, pair) ==
    IF pair[1] # <<>> /\ pair[2] # <<>> /\ \A p \in map : p[1] # pair[1]
    THEN map \cup {pair} ELSE map

LoadFile(file) ==
    LET lines == LinesOf(file)
        map[i \in 0..Len(lines)] ==
            IF i = 0 THEN {} ELSE Inserted(map[i - 1], ParseLine(lines[i]))
    IN  map[Len(lines)]

Line(pair) == pair[1] \o <<Equals>> \o pair[2] \o <<LineEnd>>

\* Mutant: the buffer has no room for the last character.
PairTextShort(pair) == SubSeq(Line(pair), 1, Min({Len(Line(pair)), PairSize - 2}))
\* _WriteFIle: snprintf cuts what its buffer cannot hold, the line's end first
PairText(pair) == SubSeq(Line(pair), 1, Min({Len(Line(pair)), PairSize - 1}))

WriteFile(map) == LET p == SetToSeq(map) IN FlattenSeq([i \in DOMAIN p |-> PairText(p[i])])

\* A line as it may be written: blanks around a key, a sign and a value, and
\* a comment; any of them may be missing.
LineText(l) ==
    l.pad[1] \o l.key \o l.pad[2] \o l.sign \o l.pad[3] \o l.value \o l.pad[4] \o l.note
      \o <<LineEnd>>

FileOf(lines) == FlattenSeq([i \in DOMAIN lines |-> LineText(lines[i])])

(***************************************************************************)
(* MD5.  A state is the sequence of the blocks transform has absorbed:     *)
(* two digests are equal exactly when these are.  The eight bytes of the   *)
(* length at the end are the two words of _count, an element each.         *)
(***************************************************************************)

LengthSize == 2
Index(count) == (count[1] \div 8) % BlockSize

NewMd5 == [state |-> <<>>, count |-> <<0, 0>>, buffer |-> [i \in 1..BlockSize |-> 0],
           finished |-> FALSE, digest |-> <<>>]

\* Mutant: the carry into the second word is forgotten.
CountedNoCarry(count, n) == <<(count[1] + 8 * n) % Word, count[2]>>
\* the number of bits, in two words
Counted(count, n) ==
    LET low == (count[1] + 8 * n) % Word
        carry == IF low < (8 * n) % Word THEN 1 ELSE 0
    IN  <<low, (count[2] + carry + (8 * n) \div Word) % Word>>

Overlay(buffer, at, s) ==
    [i \in DOMAIN buffer |-> IF i - at \in DOMAIN s THEN s[i - at] ELSE buffer[i]]

\* the whole blocks of a text
Blocks(s) ==
    [k \in 1..Len(s) \div BlockSize |-> SubSeq(s, BlockSize * (k - 1) + 1, BlockSize * k)]

Update(m, input) ==
    LET index == Index(m.count)
        data == SubSeq(m.buffer, 1, index) \o input
        n == Len(data) \div BlockSize
        blocks == Blocks(data)
        rest == SubSeq(data, BlockSize * n + 1, Len(data))
    IN  [m EXCEPT !.finished = FALSE,
                  !.count = Counted(@, Len(input)),
                  !.state = @ \o blocks,      \* transform takes them one by one
                  !.buffer = IF n = 0 THEN Overlay(@, index, input)
                             ELSE Overlay(blocks[1], 0, rest)]

Padding(n) == [i \in 1..n |-> IF i = 1 THEN 128 ELSE 0]

\* The state and the count are put back, the buffer and _finished are not:
\* update has cleared _finished again.
Final(m) ==
    LET index == Index(m.count)
        room == BlockSize - LengthSize
        padded == Update(m, Padding(IF index < room THEN room - index
                                    ELSE room + BlockSize - index))
        ended == Update(padded, m.count)
    IN  [ended EXCEPT !.digest = ended.state, !.state = m.state, !.count = m.count]

Digest(m) == IF m.finished THEN m ELSE Final(m)

Md5Reference(text) ==   \* RFC 1321: pad to a whole number of blocks, then absorb them
    LET bits == 8 * Len(text)
        pad == CHOOSE n \in 1..BlockSize : (Len(text) + n + LengthSize) % BlockSize = 0
    IN  Blocks(text \o Padding(pad) \o <<bits % Word, (bits \div Word) % Word>>)

(***************************************************************************)
(* WebSocket frames.  A byte has half its values with the top bit set; of  *)
(* the second byte's other values the last two announce a longer length,   *)
(* in two and in eight bytes.                                              *)
(***************************************************************************)

Half == ByteBase \div 2

\* n >> 8 * i, for i up to k
Shifted(n, k) ==
    LET shifted[i \in 0..k] == IF i = 0 THEN n ELSE shifted[i - 1] \div ByteBase
    IN  shifted
Digits(n, k) == [i \in 1..k |-> Shifted(n, k)[k - i] % ByteBase]
Number(bytes) ==
    LET number[i \in 0..Len(bytes)] == IF i = 0 THEN 0 ELSE ByteBase * number[i - 1] + bytes[i]
    IN  number[Len(bytes)]

LengthBytes(n) ==
    CASE n < Half - 2                              -> <<n>>
      [] n \in Half - 2..ByteBase * ByteBase - 1  -> <<Half - 2>> \o Digits(n, 2)
      [] OTHER                                     -> <<Half - 1>> \o Digits(n, 8)

\* buildWebSocketFrame: not masked
BuildFrame(payload, opcode) == <<Half + opcode>> \o LengthBytes(Len(payload)) \o payload

\* a ^ b for bytes, bit by bit
Xor(a, b) ==
    LET bit(w) == w * ((a \div w + b \div w) % 2)
    IN  bit(1) + bit(2) + bit(4) + bit(8) + bit(16) + bit(32) + bit(64) + bit(128)

\* Mutant: the key starts over at its second byte.
UnmaskLate(s, key) == [i \in DOMAIN s |-> Xor(s[i], key[(i % 4) + 1])]
Unmask(s, key) == [i \in DOMAIN s |-> Xor(s[i], key[((i - 1) % 4) + 1])]

\* what a client sends
ClientFrame(payload, opcode, key) ==
    LET len == LengthBytes(Len(payload))
    IN  <<Half + opcode, Half + Head(len)>> \o Tail(len) \o key
          \o [i \in DOMAIN payload |-> Xor(payload[i], key[((i - 1) % 4) + 1])]

\* The bytes of one read, which begin with a whole frame.  The reserved bits
\* of the first one are not set: no extension is agreed on.
ParseFrame(data) ==
    LET masked == data[2] >= Half
        short == data[2] % Half
        more == CASE short = Half - 2 -> 2 [] short = Half - 1 -> 8 [] OTHER -> 0
        key == 2 + more
        offset == key + (IF masked THEN 4 ELSE 0)
        rest == SubSeq(data, offset + 1, Len(data))
    IN  [fin |-> data[1] >= Half, opcode |-> data[1] % Half,
         payload_length |-> IF more = 0 THEN short ELSE Number(SubSeq(data, 3, 2 + more)),
         payload_data |-> IF masked THEN Unmask(rest, SubSeq(data, key + 1, key + 4)) ELSE rest]

\* what arrives: a frame with or without a key, and more
Received(i) ==
    (IF i.key = <<>> THEN BuildFrame(i.payload, i.opcode)
                     ELSE ClientFrame(i.payload, i.opcode, i.key)) \o i.more

(***************************************************************************)
(* redisvFormatCommand, called with the whole command as its format and no *)
(* arguments.  "x" is a character that means nothing to printf, "d" one    *)
(* that ends a conversion; any other flag or end of a conversion would     *)
(* also read an argument or give up.                                       *)
(***************************************************************************)

Percent == "%"
Flags == {Blank, "0"}

\* Mutant: takes a conversion for text.
ConversionIgnored(s, i) == "none"
\* What the conversion whose first character is s[i] comes to.  The end of the
\* string is taken for a conversion too: strchr finds the terminator.
Conversion(s, i) ==
    LET after == {k \in i..Len(s) : s[k] \notin Flags}
    IN  IF s[i] = "s" \/ after = {} \/ s[Min(after)] = "d"
        THEN "argument" ELSE "illegal"      \* reads an argument, or gives up

\* a percent sign with a character behind it
ReadPercent(s, i, a) ==
    IF s[i + 1] = Percent THEN [a EXCEPT !.word = Append(@, Percent), !.upto = i + 1]
    ELSE IF Conversion(s, i + 1) = "none" THEN [a EXCEPT !.word = Append(@, Percent)]
    ELSE [a EXCEPT !.err = Conversion(s, i + 1)]

\* what the next character adds to the words before it and the present one
ReadChar(s, i, a) ==
    IF i <= a.upto \/ a.err # "none" THEN a
    ELSE IF s[i] = Percent /\ i < Len(s) THEN ReadPercent(s, i, a)
    ELSE IF s[i] # Blank THEN [a EXCEPT !.word = Append(@, s[i])]
    ELSE IF a.word = <<>> THEN a
    ELSE [a EXCEPT !.words = Append(@, a.word), !.word = <<>>]

Unread == [words |-> <<>>, word |-> <<>>, upto |-> 0, err |-> "none"]

Format(s) ==
    LET read[i \in 0..Len(s)] == IF i = 0 THEN Unread ELSE ReadChar(s, i, read[i - 1])
        end == read[Len(s)]
    IN  [err |-> end.err,
         words |-> IF end.word = <<>> THEN end.words ELSE Append(end.words, end.word)]

\* SerializeMessageToJson, as far as printf sees it: the text between quotes
Payload(text) == <<"x">> \o text \o <<"x">>

\* Xadd: the command for one message, and what the server makes of it: pairs
\* of words after the id.
XaddCommand(text) ==
    <<"A", Blank, "k", Blank, "*", Blank, "p", Blank>> \o Payload(text)
      \o <<Blank, "r", Blank, "k">>

Xadd(text) ==
    LET f == Format(XaddCommand(text))
        pairs == SubSeq(f.words, 4, Len(f.words))
    IN  [err |-> f.err, words |-> f.words,
         accepted |-> f.err = "none" /\ Len(pairs) % 2 = 0,
         payload |-> pairs[2]]

(***************************************************************************)
(* One job: the input at once, or in pieces.                               *)
(***************************************************************************)

Inputs(fn) == {j.input : j \in {k \in Jobs : k.fn = fn}}

\* The sizes are those of the code or smaller.  A word of _count holds the
\* bits of a whole number of blocks.
ASSUME SizesAssumption ==
    /\ LineSize \in Nat /\ PairSize \in Nat /\ 1 < PairSize /\ PairSize <= LineSize
    /\ BlockSize \in Nat /\ BlockSize > LengthSize
    /\ Word \in Nat /\ Word >= 8 * BlockSize /\ Word % (8 * BlockSize) = 0
    /\ \E h \in 3..128 : ByteBase = 2 * h

Lacks(s, signs) == \A i \in DOMAIN s : s[i] \notin signs
Trimmed(s) == s = <<>> \/ (s[1] # Blank /\ s[Len(s)] # Blank)

\* Lines with a sign or without one.  Frames of which eight bytes can give
\* the length, with a key or without one.  Replies that are trees.
ASSUME InputsAssumption ==
    /\ Inputs("CStrExplode") \cup Inputs("Xadd") \subseteq Seq(STRING)
    /\ Inputs("base64_encode") \subseteq Seq(0..255)
    /\ \A lines \in Inputs("config") : lines \in Seq(Range(lines))
    /\ \A lines \in Inputs("config") : \A i \in DOMAIN lines :
         LET l == lines[i] IN
         /\ l.pad \in [1..4 -> Seq({Blank})] /\ l.sign \in {<<>>, <<Equals>>}
         /\ l.key \in Seq(STRING) /\ Trimmed(l.key) /\ Lacks(l.key, {LineEnd, Hash, Equals})
         /\ l.value \in Seq(STRING) /\ Trimmed(l.value) /\ Lacks(l.value, {LineEnd, Hash})
         /\ l.sign = <<>> => Lacks(l.value, {Equals})
         /\ l.note \in Seq(STRING) /\ Lacks(l.note, {LineEnd})
         /\ l.note # <<>> => l.note[1] = Hash
    /\ Inputs("MD5") \subseteq Seq(Nat)
    /\ \A i \in Inputs("frame") :
         /\ i.payload \in Seq(0..ByteBase - 1) /\ i.more \in Seq(0..ByteBase - 1)
         /\ LET p == ByteBase * ByteBase * ByteBase * ByteBase IN Len(i.payload) < p * p
         /\ i.opcode \in 0..Half - 1
         /\ i.key = <<>> \/ i.key \in [1..4 -> 0..ByteBase - 1]
    /\ Inputs("redisReader") \subseteq Seq({s \in Seq([type : NodeTypes, n : Int]) : IsReply(s)})

AtOnce == {"CStrExplode", "base64_encode", "config", "frame", "Xadd"}
Waiting == [done |-> FALSE]

CodecsInit ==
    /\ job \in Jobs
    /\ left = (CASE job.fn \in AtOnce -> <<>>
                 [] job.fn = "MD5" -> job.input
                 [] job.fn = "redisReader" -> WireOf(FlattenSeq(job.input)))
    /\ out = (CASE job.fn \in AtOnce -> Waiting
                [] job.fn = "MD5" -> [md5 |-> NewMd5, digests |-> <<>>]
                [] job.fn = "redisReader" -> [reader |-> NewReader, replies |-> <<>>])

Computes(fn, value) ==
    /\ job.fn = fn
    /\ ~out.done
    /\ out' = [done |-> TRUE, value |-> value]
    /\ UNCHANGED <<job, left>>

ExplodeList == Computes("CStrExplode", Explode(job.input))
EncodeBase64 == Computes("base64_encode", Base64(job.input))

\* Loads the file, writes the map back and loads it again.
RewriteConfig ==
    LET map == LoadFile(FileOf(job.input))
    IN  Computes("config", [map |-> map, again |-> LoadFile(WriteFile(map))])

\* One read of a connection: all that has arrived is one frame to the parser.
ReadFrame == Computes("frame", ParseFrame(Received(job.input)))
SendXadd == Computes("Xadd", Xadd(job.input))

Take(n) == left' = SubSeq(left, n + 1, Len(left))
Piece(n) == SubSeq(left, 1, n)

\* update computes with the low 32 bits of a length: a piece has less bytes
Md5Update ==
    /\ job.fn = "MD5"
    /\ \E n \in 1..Len(left) :
         /\ n < Word
         /\ Take(n)
         /\ out' = [out EXCEPT !.md5 = Update(@, Piece(n))]
    /\ UNCHANGED job

\* digest(), which may be called again
Md5Digest ==
    /\ job.fn = "MD5"
    /\ left = <<>> /\ Len(out.digests) < 2
    /\ LET m == Digest(out.md5)
       IN  out' = [md5 |-> m, digests |-> Append(out.digests, m.digest)]
    /\ UNCHANGED <<job, left>>

\* redisBufferRead feeds what has arrived, redisGetReplyFromReader takes a
\* reply if there is one.
ReadReply ==
    /\ job.fn = "redisReader"
    /\ \E n \in 0..Len(left) :
         LET r == ReaderRun(ReaderFeed(out.reader, Piece(n)))
         IN  /\ Take(n)
             /\ out' = IF HasReply(r)
                       THEN [reader |-> ReplyTaken(r), replies |-> Append(out.replies, r.obj)]
                       ELSE [out EXCEPT !.reader = r]
    /\ UNCHANGED job

CodecsNext ==
    \/ ExplodeList \/ EncodeBase64 \/ RewriteConfig \/ ReadFrame \/ SendXadd
    \/ Md5Update \/ Md5Digest \/ ReadReply

CodecsSpec == CodecsInit /\ [][CodecsNext]_codecsVars

(***************************************************************************)
(* Properties.                                                             *)
(***************************************************************************)

Computed(fn) == job.fn = fn /\ out.done

\* reference: the list of which these are the items
Joined(items) ==
    LET joined[k \in 0..Len(items)] ==
            IF k = 0 THEN <<>>
            ELSE IF k = 1 THEN items[k] ELSE joined[k - 1] \o <<Separator>> \o items[k]
    IN  joined[Len(items)]

\* a separator begins or ends the list, or follows another one
NamesEmpty(s) ==
    \/ s = <<>> \/ 1 \in Separators(s) \/ Len(s) \in Separators(s)
    \/ \E i \in Separators(s) : i + 1 \in Separators(s)

\* CStrExplode fills in as many items as it announces, and the right ones,
\* exactly when the list names no empty item; the pool set-up reads an item
\* for each one announced.
ExplodeItems ==
    Computed("CStrExplode") =>
        LET s == job.input
            items == out.value.items
        IN  IF NamesEmpty(s) THEN Len(items) < out.value.count
            ELSE out.value.count = Len(items) /\ Joined(items) = s
                   /\ \A i \in DOMAIN items : ~Contains(items[i], Separator)

\* What base64_encode writes is a whole number of groups of four characters
\* and decodes to the bytes it was given, for every length modulo three.
Base64Decodes ==
    Computed("base64_encode") => Len(out.value) % 4 = 0 /\ Decode64(out.value) = job.input

Fitting(l) == Len(LineText(l)) < LineSize
Setting(l) == l.sign # <<>> /\ l.key # <<>> /\ l.value # <<>>

\* A configuration file whose lines fit the buffer gives each key the value
\* of the first line that sets it, whatever blanks and comments stand around.
ConfigFirstWins ==
    Computed("config") =>
        LET lines == job.input
            first(k) == Setting(lines[k])
                        /\ \A j \in 1..k - 1 : Setting(lines[j]) => lines[j].key # lines[k].key
        IN  (\A i \in DOMAIN lines : Fitting(lines[i])) =>
              out.value.map = {<<lines[k].key, lines[k].value>> : k \in {i \in DOMAIN lines : first(i)}}

\* Whatever was read, of lines that fit or not, is kept by writing it back as
\* long as every line fits the writer's buffer, half as long as the reader's.
ConfigKept ==
    Computed("config") =>
        ((\A p \in out.value.map : Len(Line(p)) < PairSize) => out.value.again = out.value.map)

\* Reading a configuration and writing it back (config_file_reader.cc:29-111).
ConfigReread == ConfigFirstWins /\ ConfigKept

\* The first digest is that of the whole text, wherever update() was cut.
DigestOfText ==
    job.fn = "MD5" /\ Len(out.digests) > 0 => out.digests[1] = Md5Reference(job.input)

\* Asked again, digest() answers the same unless the padding needed a second
\* block: then it has overwritten the bytes of the text still in the buffer.
DigestAgain ==
    job.fn = "MD5" /\ Len(out.digests) = 2 /\ Len(job.input) % BlockSize < BlockSize - LengthSize
        => out.digests[2] = out.digests[1]

\* The calls of digest() that the code makes or may make (md5.cc:93-215).
Digests == DigestOfText /\ DigestAgain

\* A read that holds exactly one client frame is decoded to its payload; with
\* a second frame behind it the payload runs on past the announced length.
FrameOfRead ==
    Computed("frame") =>
        LET payload == job.input.payload
            alone == job.input.more = <<>>
        IN  /\ out.value.payload_length = Len(payload)
            /\ SubSeq(out.value.payload_data, 1, Len(payload)) = payload
            /\ alone <=> Len(out.value.payload_data) = out.value.payload_length

\* A message is stored as it was sent exactly when its text is one word
\* without a percent sign: spaces make it several words of the command, and a
\* percent sign is lost, an error, or reads an argument nobody passed.
StoredAsSent ==
    Computed("Xadd") =>
        ((out.value.accepted /\ out.value.payload = Payload(job.input))
            <=> ~Contains(job.input, Blank) /\ ~Contains(job.input, Percent))

\* The comment in ApiGetRoomHistory shows the text "Hello World" read back
\* from the stream: a message the server accepts is stored whole, and a text
\* without percent signs is accepted.
TextStoredWhole ==
    Computed("Xadd") /\ ~Contains(job.input, Percent) =>
        out.value.accepted /\ out.value.payload = Payload(job.input)

\* However the bytes are cut, the replies come out in the order they were
\* sent, each with its nodes in their places, and none is left when
\* everything was read.  Arrays within arrays beyond the stack are refused.
ReaderRestores ==
    job.fn = "redisReader" =>
        /\ \A i \in DOMAIN out.replies :
             NodesOf(out.replies[i]) = job.input[i] /\ IsTree(out.replies[i])
        /\ left = <<>> /\ out.reader.buf = <<>> /\ ~out.reader.err
             => Len(out.replies) = Len(job.input)
        /\ out.reader.err
             => \E i \in DOMAIN job.input :
                  Cardinality({k \in DOMAIN job.input[i] : job.input[i][k].type = "array"}) >= MaxDepth

=============================================================================
