---------------------------- MODULE MCStreamDecode ----------------------------
(* Instance for TLC: small dictionaries to edit, streams to decode.           *)
EXTENDS StreamDecode

NameOf(filter) == [t |-> "name", name |-> filter]
ParmsOfOne(parms) == [t |-> "dict", parms |-> parms]
ArrayOf(items) == [t |-> "array", items |-> items]
One == NameOf("flate")
Number == [t |-> "int"]

Plain == [predictor |-> 1, sample |-> 1, columns |-> 1]
Png(sample, columns) == [predictor |-> 12, sample |-> sample, columns |-> columns]
Tiff == [predictor |-> 2, sample |-> 1, columns |-> 2]

\* Filters with the parameters that go with them, or do not.
Filters ==
  {One, Number, NameOf("unknown"), NameOf("unsupported"), ArrayOf(<<One, Number>>)}
  \union {ArrayOf([i \in 1..n |-> One]) : n \in 0..3}
Arrays == {<<Plain>>, <<Plain, Png(1, 2)>>, <<Png(1, 2), Plain>>, <<Plain, Plain, Plain>>}
Parms ==
  {Number} \union {ParmsOfOne(p) : p \in {Tiff, Png(1, 2), Png(2, 2), Png(1, 6)}}
  \union {ArrayOf([i \in DOMAIN a |-> ParmsOfOne(a[i])]) : a \in Arrays}
  \union {ArrayOf(<<ParmsOfOne(Plain), Number>>)}

MCContents == {One, ParmsOfOne(Png(1, 2))}
Pairs == {<<"/Filter", f>> : f \in Filters} \X {<<"/DecodeParms", p>> : p \in Parms}
MCParsedDicts ==
  Pairs \union {<<p[1]>> : p \in Pairs} \union {<<<<"/Other", One>>, <<"/Filter", One>>>>}

\* A byte is predicted from every neighbour, rows carry over, buffers grow.
Ones(n) == [i \in 1..n |-> 1]
Means(plain, types, cut) == [plain |-> plain, types |-> types, cut |-> cut]
MCMeanings ==
  {Means(<<3, 1, 2, 3>>, <<s, t>>, 0) : s \in 0..4, t \in 0..4}
  \union {Means(<<3, 1, 2, 3>>, <<t>>, 0) : t \in 0..2}
  \union {Means(Ones(6), <<0>>, 0), Means(Ones(8), <<>>, 0), Means(Ones(9), <<>>, 0), Means(<<>>, <<>>, 0),
          Means(<<1, 2>>, <<1>>, 1)}
=============================================================================
