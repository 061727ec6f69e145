----------------------------- MODULE StreamDecode -----------------------------
(***************************************************************************)
(* pindf_stream_decode and stream/filter.c: the data of a stream go through *)
(* the filters of its dictionary, from one of two buffers to the other.     *)
(* Data are bytes in z layers of zlib format, which uncompress (external)   *)
(* takes off one by one.  A byte has ByteRange values instead of 256.       *)
(***************************************************************************)
EXTENDS Dict

CONSTANTS
  BufLen,       \* PINDF_STREAM_BUF_LEN
  MaxRetry,     \* PINDF_MAX_EXPAND_RETRY
  ByteRange,
  Meanings      \* what the writers of streams mean: [plain, types, cut]

ASSUME StreamAssumption == BufLen \in Nat \ {0} /\ MaxRetry \in Nat /\ ByteRange \in Nat \ {0}

\* Bytes, filter types of rows, and how many layers are missing.
Bytes == 0..(ByteRange - 1)
ASSUME MeaningsAssumption == Meanings \subseteq [plain : Seq(Bytes), types : Seq(Nat), cut : Nat]

FilterNames == {"flate", "unsupported", "unknown"}
\* Bound: no size is negative.
Parameters == [predictor : Int, sample : Nat, columns : Nat]

\* The places of filter_array.  Bound: no array is longer.
FilterSlots == 10

\* A name, a dictionary, or anything else; an array of such values.
IsItem(val) ==
  /\ val.t \notin {"none", "array"}
  /\ val.t = "name" => val.name \in FilterNames
  /\ val.t = "dict" => val.parms \in Parameters

ASSUME FiltersAssumption ==
  \A val \in Objects :
    IF val.t = "array"
    THEN Len(val.items) \in 0..FilterSlots /\ \A i \in 1..Len(val.items) : IsItem(val.items[i])
    ELSE IsItem(val)

VARIABLES
  held,         \* what the stream and the two buffers hold
  caps,         \* the capacity of the buffers
  live,         \* the buffers that are allocated
  chain, done,  \* the filters with their parameters, and how many were applied
  source, out,  \* buffer_in and buffer_out
  status,       \* "idle", "decoding", the return value ("ok" 0, "alias" 1, "error"),
                \* or "crash" (a call through NULL), "overflow" (bytes past the end of
                \* a buffer), "undefined" (an address that was never written)
  meant         \* what the writer of the stream meant: [plain, types, cut]

bvars == <<caps, live, done, source, out>>
svars == <<dvars, held, bvars, chain, status, meant>>

Data(z, bytes) == [z |-> z, bytes |-> bytes]
NoData == Data(0, <<>>)
Buffers == {"buffer1", "buffer2"}

\* What compressed data take is far below the capacity of a buffer.
Size(data) == IF data.z > 0 THEN 1 ELSE Len(data.bytes)

NoParms == [predictor |-> 1, sample |-> 1, columns |-> 1]
Nothing == [plain |-> <<>>, types |-> <<>>, cut |-> 0]

Empty == [b \in Buffers \union {"stream"} |-> NoData]

StreamInit ==
  /\ DictInit
  /\ held = Empty
  /\ caps = [b \in Buffers |-> BufLen]
  /\ live = {} /\ chain = <<>> /\ done = 0
  /\ source = "stream" /\ out = "buffer1"
  /\ status = "idle" /\ meant = Nothing

Edit == status = "idle" /\ DictNext /\ UNCHANGED <<held, bvars, chain, status, meant>>

-----------------------------------------------------------------------------
(* The writer of a stream, which this code is not: PNG prediction as its      *)
(* standard has it, where the left neighbour of a byte is the same byte of    *)
(* the sample before.  Then a layer for every filter.                         *)

Supported == 0..3
Predicted(type, left, up) ==
  CASE type = 0 -> 0 [] type = 1 -> left [] type = 2 -> up [] type = 3 -> (left + up) \div 2
    [] OTHER -> up
RowSize(parms) == parms.sample * parms.columns
IsPng(parms) == parms.predictor \in 10..15

EncodedRow(r, meaning, parms) ==
  LET size == RowSize(parms)
      At(row, j) == IF row < 1 \/ j < 1 THEN 0 ELSE meaning.plain[(row - 1) * size + j]
  IN  <<meaning.types[r]>> \o
        [j \in 1..size |->
           (At(r, j) - Predicted(meaning.types[r], At(r, j - parms.sample), At(r - 1, j))) % ByteRange]

\* Rows that are complete, of as many as there are filter types.
EncodedBytes(meaning, parms) ==
  IF IsPng(parms) /\ Len(meaning.plain) = RowSize(parms) * Len(meaning.types)
  THEN FlattenSeq([r \in DOMAIN meaning.types |-> EncodedRow(r, meaning, parms)])
  ELSE meaning.plain

\* cut layers are missing.
Encoded(filters, meaning) ==
  IF filters = <<>> THEN Data(0, meaning.plain)
  ELSE Data(Len(filters) - meaning.cut, EncodedBytes(meaning, Last(filters).parms))

-----------------------------------------------------------------------------
(* pindf_stream_decode, up to the loop over the filters                     *)

FilterOf(dict) == GetValue2(dict, "/Filter")
ParmsOf(dict) == GetValue2(dict, "/DecodeParms")

\* The elements of an array, or the one value that stands without an array; an absent
\* key has none.
Items(val) == IF val.t = "array" THEN val.items ELSE IF val.t = "none" THEN <<>> ELSE <<val>>

\* What /Filter and /DecodeParms make: a filter for every name, with its parameters.
Chain(filter, parms) ==
  [i \in 1..Len(Items(filter)) |->
     [filter |-> Items(filter)[i].name,
      parms |-> IF parms.t = "none" THEN NoParms ELSE Items(parms)[i].parms]]

AllAre(val, t) == \A i \in 1..Len(Items(val)) : Items(val)[i].t = t

\* A name, or an array of nothing but names.
IsFilter(filter) == filter.t \in {"none", "name", "array"} /\ AllAre(filter, "name")

\* A name goes with a dictionary, an array of names with an array of as many
\* dictionaries; without a filter the parameters are not looked into.
Agree(filter, parms) ==
  /\ parms.t \in {"none", "dict", "array"}
  /\ filter.t \in {"name", "array"} /\ parms.t # "none" =>
       /\ (filter.t = "array") <=> (parms.t = "array")
       /\ Len(Items(parms)) = Len(Items(filter))
       /\ AllAre(parms, "dict")

Content(val) == IF val = Null THEN [t |-> "none"] ELSE heap[val]

Return(st) == status' = st /\ UNCHANGED bvars

\* The dictionary of the stream is the first one.  Bound: there is no other one then.
Decode(meaning) ==
  LET dict == dicts["a"]
      filter == Content(FilterOf(dict))
      parms == Content(ParmsOf(dict))
      refused == ~IsFilter(filter) \/ ~Agree(filter, parms)
      undefined == Junk \in {FilterOf(dict), ParmsOf(dict)}
  IN  /\ status = "idle" /\ dict # NoDict /\ dicts["b"] = NoDict
      /\ meant' = meaning
      /\ IF undefined \/ refused
         THEN /\ Return(IF undefined THEN "undefined" ELSE "error")
              /\ UNCHANGED <<held, chain>>
         ELSE /\ chain' = Chain(filter, parms)
              /\ held' = [held EXCEPT !["stream"] = Encoded(chain', meaning)]
              /\ IF chain' = <<>> THEN Return("alias")
                 ELSE status' = "decoding" /\ live' = Buffers /\ UNCHANGED <<caps, done, source, out>>
      /\ UNCHANGED dvars

-----------------------------------------------------------------------------
(* stream/filter.c                                                          *)

DoubledTimes(cap) ==
  LET doubled[r \in 0..MaxRetry] == IF r = 0 THEN cap ELSE 2 * doubled[r - 1] IN doubled

\* Mutant: it gives up one try early.
TriedLess(cap) == {DoubledTimes(cap)[r] : r \in 0..(MaxRetry - 1)}

\* pindf_zlib_uncompress tries again with twice the capacity: those that it tries.
Tried(cap) == {DoubledTimes(cap)[r] : r \in 0..MaxRetry}

\* The capacity a buffer of this capacity has when so many bytes are in it.
Expanded(cap, size) == CHOOSE c \in Tried(cap) : c >= size /\ \A d \in Tried(cap) : d >= size => c <= d
Inflates(data, cap) == data.z > 0 /\ \E c \in Tried(cap) : c >= Size(Data(data.z - 1, data.bytes))
Inflated(data) == Data(data.z - 1, data.bytes)

\* PNG prediction.  A row is a filter type and rowSize bytes; what a byte is predicted
\* from: the byte before it and the one above it, 0 where there is none.
Rows(bytes, rowSize) ==
  [r \in 1..Len(bytes) \div (rowSize + 1) |-> SubSeq(bytes, (r - 1) * (rowSize + 1) + 1, r * (rowSize + 1))]

\* The row behind its filter type, byte by byte, with the row above in above.
DecodedRow(row, above) ==
  LET byte[j \in 0..Len(above)] ==
        IF j = 0 THEN 0 ELSE (row[j + 1] + Predicted(row[1], byte[j - 1], above[j])) % ByteRange
  IN  [j \in 1..Len(above) |-> byte[j]]

\* buffer before the first row.
FirstAbove(rowSize) == [j \in 1..rowSize |-> 0]

\* Every row is decoded with the one that was decoded last, which buffer holds.
DecodedRows(rows, rowSize) ==
  LET decoded[r \in 0..Len(rows)] ==
        IF r = 0 THEN FirstAbove(rowSize) ELSE DecodedRow(rows[r], decoded[r - 1])
  IN  [r \in 1..Len(rows) |-> decoded[r]]

Unpredicted(bytes, parms) == FlattenSeq(DecodedRows(Rows(bytes, RowSize(parms)), RowSize(parms)))

\* The filter type of a row without bytes is not looked at.
RowsSupported(bytes, parms) ==
  RowSize(parms) > 0 =>
    \A i \in DOMAIN Rows(bytes, RowSize(parms)) : Rows(bytes, RowSize(parms))[i][1] \in Supported
\* Mutant: the next filter writes where the last one wrote.
OtherStays(b) == b

Other(b) == CHOOSE c \in Buffers : c # b

\* buffer_in and buffer_out of the next filter.
Source == IF done = 0 THEN "stream" ELSE out
Target == IF done = 0 THEN "buffer1" ELSE Other(out)

Write(data, cap) ==
  /\ held' = [held EXCEPT ![Target] = data]
  /\ caps' = [caps EXCEPT ![Target] = cap]
  /\ done' = done + 1 /\ source' = Source /\ out' = Target
  /\ UNCHANGED <<live, status>>

\* On every error the buffers stay allocated.
Fail(st) == status' = st /\ UNCHANGED <<held, bvars>>

\* Without a predictor the buffer itself grows.
Inflate(parms, data, cap) ==
  /\ parms.predictor = 1
  /\ IF Inflates(data, cap)
     THEN Write(Inflated(data), Expanded(cap, Size(Inflated(data))))
     ELSE Fail("error")

\* Rows that are made of compressed data, where the filter is not the last one: a byte in
\* the place of a filter type may be none, and what comes out has no layer to take off.
Scrambled == Data(0, <<>>)

\* With one, a buffer of the same capacity grows, and rows go from there to the buffer.
InflateRows(parms, data, cap) ==
  /\ IsPng(parms)
  /\ \/ ~Inflates(data, cap) /\ Fail("error")
     \/ Inflates(data, cap) /\ data.z > 1 /\ (Fail("error") \/ Write(Scrambled, cap))
     \/ Inflates(data, cap) /\ data.z = 1 /\ ~RowsSupported(data.bytes, parms) /\ Fail("error")
     \/ /\ Inflates(data, cap) /\ data.z = 1 /\ RowsSupported(data.bytes, parms)
        /\ LET bytes == Unpredicted(data.bytes, parms)
           IN  IF Len(bytes) > cap THEN Fail("overflow") ELSE Write(Data(0, bytes), cap)

OtherPredictor(parms) == parms.predictor # 1 /\ ~IsPng(parms) /\ Fail("error")

\* A filter that is not known has no decoder, and one that is not supported is refused.
Filter ==
  /\ status = "decoding" /\ done < Len(chain)
  /\ LET next == chain[done + 1]
         data == held[Source]
     IN  \/ next.filter = "flate" /\ (\/ Inflate(next.parms, data, caps[Target])
                                      \/ InflateRows(next.parms, data, caps[Target])
                                      \/ OtherPredictor(next.parms))
         \/ next.filter = "unsupported" /\ Fail("error")
         \/ next.filter = "unknown" /\ Fail("crash")
  /\ UNCHANGED <<dvars, chain, meant>>

\* The buffer that was written last is returned, the other one is freed.
Finish ==
  /\ status = "decoding" /\ done = Len(chain)
  /\ status' = "ok"
  /\ live' = {out}
  /\ UNCHANGED <<dvars, held, caps, chain, done, source, out, meant>>

\* The caller has used the result, and frees it if the return value was 0.
Done ==
  /\ status \in {"ok", "alias", "error"}
  /\ held' = Empty /\ caps' = [b \in Buffers |-> BufLen] /\ live' = {}
  /\ chain' = <<>> /\ done' = 0 /\ source' = "stream" /\ out' = "buffer1"
  /\ status' = "idle" /\ meant' = Nothing
  /\ UNCHANGED dvars

StreamNext == Edit \/ (\E meaning \in Meanings : Decode(meaning)) \/ Filter \/ Finish \/ Done

StreamSpec == StreamInit /\ [][StreamNext]_svars

-----------------------------------------------------------------------------
(* Properties                                                              *)

TypeOK ==
  /\ DictTypeOK
  /\ source \in Buffers \union {"stream"} /\ out \in Buffers /\ live \subseteq Buffers
  /\ done \in 0..Len(chain)
  /\ \A b \in Buffers : caps[b] \in Nat /\ caps[b] >= BufLen
  /\ status \in {"idle", "decoding", "ok", "alias", "error", "crash", "overflow", "undefined"}

\* What the code promises to decode: Flate, once or more, with rows of the PNG filters
\* 0 to 3 in the last one, a left neighbour only if a sample is a byte, and no more data
\* than the buffers can take.
PromisedFor(filters, meaning) ==
  LET n == Len(filters)
      parms == filters[n].parms
  IN  /\ meaning.cut = 0
      /\ \A i \in 1..n : filters[i].filter = "flate" /\ (i < n => filters[i].parms.predictor = 1)
      /\ n > 0 =>
           /\ Len(Encoded(filters, meaning).bytes) <= DoubledTimes(BufLen)[MaxRetry]
           /\ parms.predictor = 1 \/ IsPng(parms)
           /\ IsPng(parms) =>
                /\ Len(meaning.plain) = RowSize(parms) * Len(meaning.types)
                /\ Len(meaning.plain) <= BufLen
                /\ Range(meaning.types) \subseteq Supported
                /\ parms.sample = 1 \/ Range(meaning.types) \subseteq {0, 2}

\* Behind the last value of vectors that grew is what was never written, Junk, and the
\* lookup of a missing key gives that (container/simple_vector.c:25, pdf/obj.c:63):
\* a lookup is promised to see whether its key is there if it is, or if none did grow.
LookupPromised(dict, key) == HasKey(dict, key) \/ ~HasGrown(dict)

Promised ==
  LET filter == Content(FilterOf(dicts["a"]))
      parms == Content(ParmsOf(dicts["a"]))
  IN  /\ \A key \in {"/Filter", "/DecodeParms"} : LookupPromised(dicts["a"], key)
      /\ IsFilter(filter) /\ Agree(filter, parms)
      /\ PromisedFor(Chain(filter, parms), meant)

\* A stream whose filters are supported decodes to what its writer encoded, whatever the
\* order of its keys, whatever was set, replaced or copied in its dictionary before, and
\* however often the buffers had to grow; only a dictionary that lacks one of the two keys
\* and whose vectors grew is excepted.
DecodesRight ==
  status \notin {"idle", "decoding"} /\ Promised =>
    /\ status \in {"ok", "alias"}
    /\ held[IF status = "ok" THEN out ELSE "stream"] = Data(0, meant.plain)

\* No filter reads the buffer that it writes, and of the two buffers exactly the one that
\* is returned is left: the caller frees it and nothing else.
OneBufferLeft ==
  /\ status = "decoding" => source # out /\ live = Buffers
  /\ status = "ok" => live = {out}
  /\ status = "alias" => live = {}
=============================================================================
