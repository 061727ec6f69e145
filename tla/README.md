# A TLA+ verification of libpindf

libpindf is a C library that parses PDF files and edits them by incremental
updates: a file is opened through its cross-reference table, objects are read on
demand, edited copies are collected in a modification log, and saving appends
them to a copy of the file together with a new revision of the table. The library
is sequential. What makes it hard is not concurrency but *order and ownership*:
revisions are read from the newest to the oldest, object numbers are handed out
by callers, heap objects move between caller, log and parser, calls nest with a
parser that they share, and a file that was saved must be read back by the same
code, any number of times.

Paths below are relative to `src/`.

## Inventory

| part | code | state | operations | correct when | modules |
|---|---|---|---|---|---|
| modification log | `pdf/modif.c` | sorted list of objects, count, largest number | new, addentry, destroy | sorted, counted, owner of its objects, behaves as a map, next number unused | `Modif`, `ModifMap`, `ModifProofs` |
| xref loading | `pindf.c:81-513`, `pdf/xref.c` | the table, offset of the revision, index bookkeeping | parse_xref and its two readers | newest entry wins, in bounds, ends | `XrefFormat`, `XrefChain`, `Xref`, `XrefFormatProofs`, `XrefProofs` |
| incremental save | `pindf.c:1035-1286` | the output file | save_modif | what is saved reads back; only edited objects change | `IncrementalUpdate`, `DocStore`, `IncrementalUpdateProofs` |
| document | `pdf/doc.c` | file, xref, object table, log | new, file_parse, destroy | opened, edited, saved, closed in any order; everything freed once | `IncrementalUpdate`, `ObjCache` |
| parser | `core/parser.c` | symbol stack, stack of open brackets | add_token, add_stream, clear | objects read back, brackets tracked, tokens freed once | `PdfObj`, `ObjText`, `Parser`, `ParserProofs` |
| object reader | `pindf.c:636-854` | stream state, parser, lexer | parse_one_obj, from_buffer | stops right behind the object asked for | `ObjReader`, `ParserProofs` |
| object cache | `pindf.c:856-1033`, `1288-1315` | one entry per number | getobj, deref | an object is read once, freed once, and is the one of the file | `ObjCache`, `ObjCacheProofs` |
| lexer | `core/lexer.c` | automaton, token buffer | lex, lex_options, from_buffer | every character in one token, the tokens of the text, buffer never overrun | `Lexer`, `LexerProofs` |
| startxref scanner | `pindf.c:515-634` | automaton over the last 50 bytes, the lexer of the version line | quick_match_startxref, file_parse | a finished file opens at its offset | `Opening`, `LexerProofs` |
| filters | `stream/filter.c`, `pindf.c:219-334` | two buffers that take turns | stream_decode, inflate, prediction | decodes to what was encoded, one buffer left | `StreamDecode`, `StreamDecodeProofs` |
| objects, dictionaries, vectors | `pdf/obj.c`, `container/` | parallel vectors of keys and values | get, set, copy, destroy | a map, every value owned once | `Dict`, `DictMap`, `StreamDecodeProofs` |
| serializer | `core/serialize.c` | none | file, buffer, JSON | what is written reads back as the same object | `Serialize` |
| logger, typedefs | `logger/`, `type.h` | none | | | not modelled |
| tests | `test/` | | | | not modelled; they show how callers use the library |

How they interact. `pindf_file_parse` drives the lexer and parser and calls the
xref loader, which fills `doc->xref`. `pindf_doc_getobj` looks a number up there
and has the object reader parse at the offset found; for a member of an object
stream it calls itself for the stream first, with the same parser. The caller
copies objects, edits them and hands them to the log, which owns them from then
on. `pindf_doc_save_modif` walks the log, writes the objects and a new xref
revision whose `/Prev` is `doc->xref_offset`. `pindf_doc_destroy` frees log, table
of objects and xref. There are no threads, callbacks or messages; interleavings are the
orders in which a caller may make these calls.

The behaviours that are hard, each listed with its line under `hazards` in
`PROJECT.json`: entries merged newest first where "not set yet" is read off the
entry itself; the running counters that place entries of an xref stream; numbers
that the save takes without telling the log; a second save from the same log;
tokens whose owner depends on what the parser did with them; parsers that are
reused after an error or inside a nested call; reference circles; a lexer that is not
cleared between the first line of a file and its end; tokens that end one character
late; a lookup that reads behind the last value; buffers that change roles and grow.

## Modules and how they correspond to the code

**Modif** — `pdf/modif.c`. The linked list is the sequence `log` (without its
header node); an indirect object is a heap cell with an owner, `cell[o]` being
`"free"`, `"caller"` or `"log"`, and the number it carries. `New`, `AddEntry`
(with the walk to its position, then `ReplaceEntry` or `InsertEntry`) and
`Destroy` are the functions of the file; `MakeIndObj` is the caller's malloc. A
freed cell may come back from a later malloc. **ModifMap** is its abstract specification: a map from
numbers to objects in which the last one handed over counts, and objects the
caller holds.

**XrefFormat**, **XrefChain**, **Xref** — loading. A file is a sequence of items
and an offset is a place in it. `XrefFormat` has the entries, the condition under
which `pindf_xref_section_setentry` sets one, and the two forms of a revision.
`Xref` reads entry by entry, as `_parse_xref_table` and `pindf_parse_xref_obj` do,
with `cur_section` and `cur_section_first_entry`; `XrefChain` merges a whole
revision per step and is what `Xref` is shown to implement. What a malformed text
does is the action `Malformed`, a negative return at any point; the assertion
"xref overflow" is `Overflow`/`Abort`.

**IncrementalUpdate** — composes the actions of `XrefChain` (`Loader`) and
`Modif` with `pindf_doc_save_modif`, over any number of sessions: `Open`,
`LoadRevision`, `NewLog`, `MakeObject`, `AddEntry`, `Save` as table or stream and
onto a copy or behind an earlier save, `CloseDoc`.
**DocStore** is what it implements: a store whose objects are overridden by
pending edits when they are saved.

**PdfObj**, **Parser** — `core/parser.c`. `PdfObj` has the classes of tokens and
objects that the parser tells apart; which words are integers (`Ints`) and their values (`IntValue`, any natural
numbers) are constants. A token is converted on bytes that end with no NUL
(`container/uchar_str.c:3-11`), so `raw` is the text as it is written and `text` what `strcmp("true", ...)` and `atoi` make of
it: behind each token that is converted stands any of `Slack`, and `Converted` gives what comes out. A symbol on `stack` is an object or a token; a
token says whether its memory is still live, because the readers free each token
after it was added unless it is a delimiter. `Open`, `Close`, `Ref` and `EndObj`
are `_update_reduce_pos`, `_reduce_array`/`_reduce_dict`, `_reduce_ref` and
`_reduce_ind_obj`. Where the code reads what is not there (a symbol before the
stack, an object that is a token) the model has status `"undefined"`. **ObjText**
is the text of an object, against which the parser and the readers are compared. It models no code. A text is written from
the outside to the inside: `Expanded` replaces each object of a sequence by its brackets or keywords and its parts, and
`Written` does so `MaxNest` times, when only tokens are left. `StreamText` is the text of an indirect object with
stream data behind its dictionary. Which objects the texts are of is the constant `Objects` of `Parser`; `ObjectsAssumption`
says that each is well-formed (pairs in dictionaries, two numbers in a reference, ...) and nests at most `MaxNest` deep.

**ObjReader** — `pindf.c:636-854`, extends `Parser` by the two readers: the stream
state machine 0 to 3, the data that are skipped by `/Length`, the types asked for
and the values returned. The length of a stream is a converted token too. A text is the sequence of tokens that the lexer emits;
white space is gone except the line break behind `stream`.

**ObjCache** — `pindf_doc_getobj` and `pindf_deref`. `calls` is the C stack of
getobj calls (the second one is for an object stream), `heap` the objects that were
read with the number of times each was freed, `table` is `ind_obj_list`, `parsers`
what the caller's parser and the one that `pindf_deref` makes hold: nothing, some symbols, or symbols whose tokens were
freed (`"stale"`), which a lookup that failed may leave behind and the next one destroys again (`ClearsStale`). A caller may go on with its
parser after a failure or make a new one. A member of an object stream may be unreadable like anything else
(`Unreadable`). What is at an offset is given by
the file; that reading it works is the subject of `ObjReader`.

**Lexer** — `core/lexer.c`, on characters. One step reads one character (`ReadChar`,
whose parts `InString` ... `Regular` are the branches of `_update_state`), emits a line end
that is complete, or ends the text. `Keep` is `_append_ch`, `Emit` is `_emit`, `Pending` is
`_prev_state_emit`. A character is a member of `Alphabet`: white space, delimiters, signs, three
digits, and letters; a tab, a form feed and NUL are blanks to the code as `" "` is here, and of the 95
printable characters those are kept that the automaton, the keywords and the number formats tell apart.
`Spelled` says, without the automaton, what it means that a text is made of given words: where each stands, what its
characters are, and that only blanks and carriage returns stand between them.
**Opening** extends it by `pindf_quick_match_startxref` and the beginning
of `pindf_file_parse`: the version line, the scan, and the number behind the keyword, with one lexer.
`BegunRight` and `EndedRight` say what a writer has to see to for a file to be finished: the first token ends at white
space, and the keyword, with white space before it, stands among the characters that are searched, before anything else
there that begins like it. A second `startxref` among the last 50 bytes would be taken first.

**Serialize** — the text that `pindf_pdf_obj_serialize_file` writes for an object, that
`pindf_doc_save_modif` writes around it, a table section and the end of a saved file, as characters.
It is recursive, so nothing is proved about it. `slack` is what stands behind the bytes of a name: a name is
printed up to a NUL that nothing puts there.

**Dict** — dictionaries as two vectors, `keys` and `vals`, with a slot more than their
capacity; a cell of `heap` is a value object. `AppendPair`, `Position`, `SetPointer`, `DeepCopy` and
`Destroy` are `pindf_vector_append`, the loop of the lookups, `pindf_dict_set_value`,
`pindf_dict_deepcopy` and `pindf_pdf_dict_destory`. `Junk` is a slot that `realloc` has added and no one
has written. **DictMap** is the abstract specification: two independent maps.

**StreamDecode** extends `Dict` by `pindf_stream_decode` and the decoding side of
`filter.c`: a stream's dictionary is edited, and then its `/Filter` and `/DecodeParms` are read from the
vectors as they are: names, dictionaries, anything else, and arrays in which all these mix. A predictor in a filter that is not the last
takes rows out of compressed bytes (`Scrambled`). Data are bytes under a number of zlib layers; `uncompress` (external) takes one off.
The operators `Encoded...` are the writer of the stream, after the PNG standard, against which decoding is compared.

The modules `MC...` give the constants values for TLC.

## Runs

| run | question | result |
|---|---|---|
| `modif` | do all orders of building, adding, replacing and destroying objects keep the log sorted, counted and owner of its cells, and is it a map? | holds |
| `xref` | does reading entry by entry stay in bounds, amount to merging revisions, give each number its newest entry and end? | holds for files whose updates chain free entries |
| `incremental_update` | do edits, saves and reopenings change exactly the edited objects? | holds |
| `obj_reader` | is every object read back from its text as it is converted, with open brackets tracked and clean to clear, and do both readers return the first object of the text and stop behind it? | holds |
| `obj_cache` | do lookups and dereferences that return give what the file has, reading and freeing each object once? | holds |
| `lexer` | does no character get lost, are the tokens those that were written, does a finished file open where its writer said? | holds |
| `stream_decode` | do dictionaries own each value once and behave as maps, do streams decode to what was encoded, is one buffer left? | holds, where the lookups see which keys are there |
| `xref_chain_free` | is a freed object ignored (`docs/limitations.rst:32`)? | violated: a free entry with offset field 0 counts as not set |
| `parser_clear` | does the parser free only tokens it owns (`core/parser.h:63-65`)? | violated after an error or in the middle of an indirect object |
| `parser_leaves` | is an object that was read the one that is written (`docs/pdf_structure.rst:98`, `110`)? | violated: `true` is read as false, 1 as 12 |
| `serialize_slack` | does an object that was written read back (`core/serialize.h:33`)? | violated: a name takes in what the heap held behind it |
| `obj_cache_deref` | does dereferencing nothing give NULL (`pindf.h:102`)? | violated: NULL is read |

Smaller disagreements are in the models, or were met while writing them, and have no run:

* The stream form of a save writes generation 0 for every entry (`pindf.c:1082`, against `pdf/xref.h:41`);
  `/Size` of a revision saved as a table is two more than the largest number (`pindf.c:1138`, against the
  comment above it); the save copies no original content (`docs/pdf_structure.rst:128`; the model's caller
  has put it in the output).
* The reader of a buffer returns 0 for an object that it found (`pindf.c:842`), and `pindf.h:60` says 1.
  `BufferReadsFirst` takes either, and the caller (`pindf.c:991`) looks at the sign only.
* One parser is used for all lookups (`docs/examples.rst:91-96`), but after one that failed in the middle of an object the
  next one begins by freeing its tokens again (`pindf.c:874`): what `parser_clear` shows of the parser, as `ObjCache` has it
  (status `"freedTwice"`).
* A key that is missing does not give NULL (`docs/examples.rst:267-268`) once the vectors of its dictionary have grown
  (`container/simple_vector.c:25`): the slot read is `Junk` in `Dict`.
* Without the keyword the scan ends the program (`pindf.c:569`, phase `"exited"`), where `pindf.h:75` says that it returns 0.
* An object with `/Length` and no stream is not returned when it is complete (`pindf.c:673`, against
  `pindf.h:49`); type 0 finds nothing when a file is read (`pindf.h:48`).
* The scan takes `startxre` and white space for the keyword too, and the white space before it must be in the window.
* A number that ends with the file is never emitted, and a carriage return alone is no line end.
* A hexadecimal string with white space is an error. When a file has no version line, what its first token
  leaves in the lexer is glued to the offset that is read later.
* A filter name that is not known is called through NULL, the buffers leak on every error, and rows
  that are more than the buffer holds are written past it. Samples of more than a byte decode wrong for the
  filters that look left, since the code takes the byte before for the left neighbour.
* A predictor in a filter that is not the last un-predicts compressed bytes, which no later filter can inflate.

The properties worth a second look:

* `ImplementsMap`, `ImplementsStore`, `ImplementsChain` are refinements: the
  detailed module under a mapping of its state is a behaviour of the abstract one.
  `ImplementsStore` is the promise of incremental updates end to end: a save
  overrides the edited objects of the store a reader finds, nothing else ever
  changes it, and the edits stay pending, also over a second save that writes them again.
* `NewestWins`: the loader's only rule is "set what is not set", tested on the entry
  itself; with several revisions that must amount to the newest entry of each number.
* `LeavesAsWritten` and `ReadsBack` divide what an object that was read has to be: `ReadsBack` takes the tokens with
  the values that their conversions give, which are the written ones where a NUL happens to follow, and holds;
  `LeavesAsWritten` takes them as they are written and does not. The readers are compared in the same way.
* `ReadsBack` relates the parser's stack to the tokens read at *every* point: the
  symbols, written out, are the tokens in their order, and at the end they are the object. `KnowsOpenBrackets` says of `reduce_pos` and its stack that
  they are the places of the open brackets, for texts that are no objects too; it fails where `endobj` comes
  inside a bracket (`EndsOutside`), because `_reduce_ind_obj` takes the symbol before the object without a look.
* `FileReadsFirst`, `BufferReadsFirst`: the reader returns the object that begins the
  text and stands right behind it, although more follows. It looks for a stack of one symbol of the type asked for
  after *every* token, so this rests on no part of the object being alone on the stack with that type earlier;
  and a stream is found by a key `/Length` at any depth, so what is promised of files is for one such key, or none.
* `GetsWhatTheFileHas`: a lookup that returns gives what the file has, whatever was cached, nested or could not be
  read before; it depends on every path of the nested call clearing the parser. It does not say that a lookup
  returns: one with a parser on which another lookup failed may free memory twice before it comes to reading, and what
  happens then is no longer in the model (status `"freedTwice"`). `parser_clear` shows this double free where it
  arises, in the parser. `OwnedOnce` is about objects, not about these tokens.
* `NothingLost` of `lexer`: although a token leaves the lexer a character late and its state decides
  what it is, every character that is no white space is in exactly one token, in order, at every point.
  `ReadsTokens` and `WrittenReadsBack` compare the tokens with what the writer of the text meant;
  `OpensWhereWritten` ties the scan, the window and the state in which the first line left the lexer together.
* `MissingIsNull`: a lookup that finds no key reads one slot further than the values; that this slot exists
  and was cleared rests on how the vectors were allocated and grown.
* `DecodesRight`: a stream decodes to what its writer encoded, whatever happened to its dictionary before, with one
  exception that is as important as the rule: when `/Filter` or `/DecodeParms` is missing and the vectors
  have grown, the lookup may read what was never written (`Junk`; decoding then ends as `"undefined"`), and nothing is promised
  (`LookupPromised`). A dictionary that came from a file has not grown, since the parser allocates its vectors for its
  pairs and two more; one that was copied, or got keys, may have. What else is promised stands in `PromisedFor`, with the
  cases that the code gets wrong taken out by name.
* `OneBufferLeft`: the buffers change roles with every filter, and the one that is freed at the end must be the other one.
* `OwnedOnce`, `StaysLoaded`: an object read once stays the object of its number, in
  one entry, and is freed once.

### Bounds, and why they are enough

* `modif`: four cells, numbers 0 to 4, sizes 1 and 3. Three nodes are needed for
  insertion at either end and between, the fourth cell for a replacement while the list is
  full; numbers lie below, at and above the size.
* `xref`, `xref_chain_free`: two revisions of each form with all four section layouts
  (one section, a part, two apart, two out of order) over three entry kinds, three revisions
  of tables, and files whose newest `/Size` is too small.
* `incremental_update`: two cells, two values, numbers up to `MaxNum` = 4, files of up to
  `MaxItems` = 6 items: an original of two items and two saves. Two cells allow a gap, a run and a
  replacement; two saves cover saving twice, reopening and saving on a saved file.
  The files to start from are a table with a chained free entry, a stream, and a table whose `/Size` is
  too small. `MaxItems` cuts saves only, so every file reached is one the code writes.
* `obj_reader`, first half: a caller who adds tokens itself, as `pindf_parse_xref` does (`pindf.c:451-497`), and clears the parser at
  any time (`docs/examples.rst:56`). Objects of arrays and dictionaries up to three deep with up to two parts,
  references included, alone and as indirect objects, and all sequences of four tokens (the same in `parser_clear` and `parser_leaves`). The reductions look at
  no more than five symbols and at the innermost bracket; behind 1 and true there is a NUL or another digit, so 1
  comes out as 1 or 12 and true as true or false, in arrays, dictionaries, references and indirect
  objects; depth three is the first in which the stack of positions differs from "the first" and "the last". `MaxNest`, a bound of the reference text and not
  of the code, is as much as the objects of a run need: 6 here, 4 in `lexer`.
* `obj_reader`, second half: the two readers, with about three thousand requests: each type asked for on texts of every type,
  streams with zero, one, two and twelve bytes (a length of 1 may come out as 12, and the data are then too short),
  with `/Length` first, last or alone, damaged texts and all
  sequences of three tokens.
* `obj_cache`: three numbers besides 0, references in chains and circles, an
  object stream with up to two members, readable or not, whose entries agree or disagree with it, entries that are
  free or cannot be read, and callers that keep their parser or make a new one at any time; `MaxDeref` = 4 in place of 100, so chains end below, at and above it.

* `lexer`, `serialize_slack`: every text of three characters out of twelve, one of each class, and every text of five
  characters of a string, of a hexadecimal string and of line ends (a state is left within two
  characters of being entered, except by nesting, for which there are five); pairs of all kinds of words with all
  kinds of gaps; every kind of object that `Serialize` writes. `BufSize` = 9 is the length of the longest keyword, words of `BufSize` and one
  more character just fit and do not. `Window` = 25 in place of 50 is a few bytes more than the end of a file takes; the files
  have as many blanks behind it as fit, and one more.
* `stream_decode`: a dictionary and a copy of it (the second dictionary is only a copy of the first, only
  dictionaries whose values a caller could have set are copied, and decoding happens when there is one),
  `CellCount` = 4 values, `FreshCap` = 1 in place of 8 so that a second key grows the vectors, `BufLen` = 4 bytes and
  `MaxRetry` = 1 so that output fits at once, after growing, and not at all; bytes have `ByteRange` = 4 values; up to
  three filters, with parameters that agree or do not, names and dictionaries mixed with other values, a predictor in the first
  or the last filter, two rows of every pair of filter types. `FilterSlots` = 10 is the size of `filter_array`, past which
  the code overruns it.

Deadlock is not checked where a system stops: a document that was closed for good, a text read
to its end, a caller whose bound is used up.

### Fairness

`Lexer`, `Opening`, `Dict` and `StreamDecode` promise nothing that needs fairness. `XrefChain` and `Xref` assume that the loading loop takes its next step
(`WF` on the step), and `ObjCache` that a call of getobj or deref goes on. Each is one C function that
runs to its end once it was called. The caller's actions have no fairness.
`LoadingEnds` then rests on `/Prev` pointing to an older revision, and `DerefEnds` on the
counter, since references may form circles.

## Proofs

Every theorem below is for all values of the constants that satisfy the assumptions named with it. The
run of the same component shows its property, and most of its invariant, on a small instance.

### Modification log (`ModifProofs`)

For every set of cells, every set of numbers in `Nat` and every positive size (`NumsAssumption`,
`SizesAssumption`; `pindf_modif_init` asserts the second):

* `InductiveInvariant == Spec => []IInv`, and from it `TypeCorrect`, `AlwaysSorted`, `AlwaysCounted`,
  `AlwaysFresh`, `AlwaysOwned`: the invariants that the run `modif` checks;
* `AlwaysKept == Spec => NothingLost`: no step of a log that stays drops an object number;
* `LogImplementsMap == Spec => ImplementsMap`: the log is a map from numbers to objects.

`IInv` is the conjunction of the five with `NoLogNoNodes`, that a log which does not exist has no nodes.
None of the parts is inductive alone: that insertion keeps the list sorted needs the list sorted (so the
walk stops where all numbers before are smaller and all after larger, lemma
`PositionSplitsLog`); that a replacement frees no other node's cell needs that nodes share no
cell; and `NoLogNoNodes` is needed by `New`, which starts from an empty list without freeing one.
There is one lemma per action; `InsertAtProperties` and `InsertNode` say once what inserting into a
sequence gives. For the refinement, `PendingIsLog` says what the map is in terms of the nodes and `Held`
what the caller holds; then each action of `Modif` is the action of `ModifMap` with the same name, or a stutter.

### Cross-reference loading (`XrefFormatProofs`, `XrefProofs`)

For any number of revisions, sections and pairs of any length (`FilesAssumption`: sections and
pairs are not empty, and the pairs of a stream add up to its entries; `OnceAssumption`: a revision declares
a number once. Writers of well-formed files see to both and the loader checks neither):

* `ReadsInBounds == Spec => []InBounds`: the pair that is read exists, and the entry that is set lies in the table;
* `NeverAborts == Spec => []NoOverflow`: the assertion of `pindf_xref_alloc_section` holds when the
  newest `/Size` covers all revisions;
* `ReadsRevisionByRevision == Spec => ImplementsChainSteps`: entry by entry amounts to a revision per step;
* `NewestRevisionWins == Spec => []NewestWins`: each number gets the entry of the newest revision that has it,
  if each `/Prev` is the revision before (`PrevIsPrevious`) and a freed object gets a free entry that no one can take
  for one that was not set (`FreesAreChained`). `xref_chain_free` shows that the second condition is needed.

`InBounds` alone is not inductive: when a pair is full, the next one must exist unless all entries were read. The
invariant `IInv` has the places at which the pairs begin (`At`: `first` is the place of pair `cur`, and `i`
lies before the place of the next one), that the section of a pair was allocated by its first entry
(`Allocated`), and that the table has the size of the newest revision from the first one on (`Sized`). The
assertion then follows from the last number of a section or pair being one that the revision declares
(`DeclaresLastOfSection`, `DeclaresLastOfPair`).

The refinement needs `MInv`: while a revision is read, the table is what it was when the revision was begun, with
exactly the entries merged that were read so far. `NInv` adds up the revisions: an entry is blank or that of the newest
revision merged so far that declares the number. `XrefFormatProofs` says which entry a section or pair declares for a
number, and where a pair starts.

### Saving and opening again (`IncrementalUpdateProofs`)

For any originals that are well-formed (`OriginalsAssumption`), any largest number and any cells and values
(`NumsAssumption`, `OutputsAssumption`), and any number of sessions:

* `TypeCorrect`; `DocumentShowsFile == Spec => []OpenShowsFile`; `NewNumberIsUnused == Spec => []NextNumberIsUnused`;
  `SavedFilesOpen == Spec => []NeverOverflows`; `NumbersFindTheirObjects == Spec => []EntriesPointHome`: the
  invariants of the run `incremental_update`;
* `DocumentImplementsStore == Spec => ImplementsStore`: a save overrides the edited objects and nothing else
  ever changes what a reader finds.

`IInv` has the invariant of the log (`ModifFacts` instantiates `ModifProofs`, whose lemmas are used and not proved
again) and six facts: how status, offsets and log go together (`Document`); that the table together with the revisions
that are still to be read gives what the file holds (`TableIsRead`); that the revisions read, and those of a saved file,
have no number past the size of the newest (`ReadFits`, `SavedFits`); what the cells hold (`HeapOK`); and
that a saved file differs from the one opened only where the log has an edit (`EditsAreLogged`), without which a
second save from the same log would be no override. `SavedIsFile` shows that what the save writes is a well-formed file again,
`SavedStore` what it holds.

### Parser and object reader (`ParserProofs`)

For texts of any tokens and any length (`InputsAssumption`), read and cleared any number of times:

* `TypeCorrect == Spec => []TypeOK`: the stack holds symbols, and a bracket that is closed has left a position in
  `reduce_pos_stack` to go back to, which `_restore_reduce_pos` pops without a look;
* `AlwaysKnowsOpenBrackets == Spec => []KnowsOpenBrackets`.

`TypeOK` needs that there are at least as many positions as brackets on the stack whose token is live
(`Restorable`): `endobj` may take a bracket away and leave its position, never the other way round.
`KnowsOpenBrackets` needs that there is one for each bracket that is open in the text (`OnePerBracket`), so that no bracket
is on the stack when an indirect object ends. `ReadOK` says once what is left to show of a step; there is one lemma
per kind of token.

For any objects of any size and depth (`ObjectsAssumption`), with any texts beside theirs, any set of integers with any values
(`IntsAssumption`) and any bytes behind the tokens (`ConvertedAssumption` says no more of a conversion than that it gives an integer with the same first digits, or a boolean; the text in the
theorems is the converted one, `LeavesAsWritten` being false):

* `AlwaysReadsBack == Spec => []ReadsBack`: an object is read back from its text, without an error, and the stack stands
  for the tokens read at every point;
* `AlwaysCleanAfterObject == Spec => CleanAfterObject`: clearing the parser after that frees nothing twice;
* `AlwaysBufferReadsFirst == RSpec => []BufferReadsFirst`, `AlwaysFileReadsFirst == RSpec => []FileReadsFirst`: the readers
  return the object that begins the text and stop behind it, whatever follows; from a file with stream data of as many bytes
  as the conversion of `/Length` gives, any natural number.

The argument takes the parser for a function of the token: `AfterToken` of a configuration (stack, positions, status),
where a whole object counts as a token that pushes it. `Ran` runs it over a sequence of tokens and objects. That one round of
`Written` leaves the result of the run as it was is shown once for each kind of object: the brackets, the parts in between
and the closing token come to the same as the object. By induction over the rounds the text of an object then ends
where the object alone would, with it on the stack. `FollowsObj` is the invariant: the configuration is what the run
over the tokens read so far gives, and the symbols on the stack, written out, are these tokens (`Means`). It is needed beside `IInv`, since
from `ReadsBack` alone one cannot tell which of the tokens on the stack are still live.

For the readers, `NotEarlier` says that before the last token no object is alone on the stack, except the first number of a
reference or an indirect object: the lowest symbol is the bracket or number that the text began with and stays it until the end (`LowestStays`,
`LowestRan`). Type 0 therefore finds such a number in a buffer, and `Asked` leaves these two types out for it. `RInv` is
the invariant of the readers: for each object that the text begins with, the reader is underway in it
(`BufferInv`, `PlainInv`), or has returned it. For a stream there are two phases, `StreamInv`: `Announced` ties `stream_state` and `stream_len`
to the place of `/Length` among the tokens read, and `DataRead` says what is on the stack once the data were taken over. There is
one lemma per step: `BufferStep`, `PlainStep`, `AnnouncedStep`, `DataStep`, `EndStreamStep`, `EndObjStep`.

### Object cache (`ObjCacheProofs`)

For any file of any size (`FilesAssumption`, `SizeAssumption`), circles included:

* `EachObjectIsOwnedOnce == Spec => []OwnedOnce`; `LoadedObjectsStay == Spec => StaysLoaded`;
  `GetObjReadsTheFile == Spec => []GetsWhatTheFileHas`, of lookups that return, as said above;
* `DerefGivesTheEnd == Spec => []DerefFollows` (with `MaxDerefAssumption`): dereferencing gives the object at the end
  of the references that the file has, or NULL when it is further away than the limit.

`IInv` says that the entries of `table` are what the file has or untouched (`TableOK`), that entries and heap objects are
inverse to each other (`HeapOK`), that the open calls walk from a member to its object stream and none of
their numbers is loaded (`CallsOK`), that a walk which came back to a number never returns (`CirclesStay`: so no
call can load what an outer call is about to load), what the last answer was (`AnswerOK`), and what the two parsers hold (`ParsersOK`). Once the document
was destroyed every object was freed once (`Gone`). For dereferencing, `FollowInv` says that the object at hand
is what the path of references has come to after `deref_count` steps, and that the lookup that is open, if there is one, is for the
next of them; the path is the recursive function `Path`, which stays at its end once it has reached it (`PathStays`).

### Dictionaries and filters (`StreamDecodeProofs`)

For dictionaries with any keys, number of cells, capacity and edits, and any filters (`CellsAssumption`,
`ContentsAssumption`, `NoMapAssumption`, `FreshCapAssumption`, `FiltersAssumption`, `StreamAssumption`; for
`StreamsDecodeRight` also `MeaningsAssumption`, that a writer's data are bytes):

* `BuffersNeverMeet == StreamSpec => []OneBufferLeft`, by `BInv`, that no buffer is allocated before decoding and
  that source and target differ from the first filter on;
* `MissingKeysReadNull == StreamSpec => []MissingIsNull`; `ValuesAreOwnedOnce == StreamSpec => []ValueOwnedOnce`;
  `DictionariesAreMaps == StreamSpec => ImplementsMap`, by `DictInv`;
* `TypeCorrect == StreamSpec => []TypeOK`, by `TypeInv` and `DictInv`;
* `StreamsDecodeRight == StreamSpec => []DecodesRight`: whatever a writer encoded comes out again, from rows of any
  length and number, predicted in any of the ways that the decoder knows, and a stream is refused only if it uses another. The dictionary must have both
  keys, or vectors that never grew (`LookupPromised`): `PromisedLookup` shows that its lookups then find the value or NULL.

`DictInv` has for each dictionary that exists (`DictOK`) that the keys fit into the capacity, that all slots up to the last
key hold a pointer, and that the slots behind, one of which a lookup reads, hold NULL or, once the vectors have grown, what was never
written: never a pointer that dangles. `HeapOK` and `Unshared` say that each object is the value of one key of
one dictionary. For the refinement two more facts are needed of each step, that it stores at unused cells
(`AllUsed`) and leaves other objects alone (`ObjectsStay`).

`RightInv` is what decoding keeps: the filters still to be applied (`LeftOf`) make of the buffer just filled
what the writer meant, or the status says that they do not. Its core is one row (`DecodedRowIs`): decoding
adds to each byte what encoding subtracted, modulo 256, and both take it from the row above and the byte to
the left, which the decoder has right when the bytes before are right (induction over the row, then over the
rows in `DecodedRowsAre`). `FlattenRows` and `RowsFlatten` say that cutting the data into rows and putting them in
line again are inverse, and `TriedIs` that doubling the buffer until the data fit ends with a buffer that holds them.

### Lexer (`LexerProofs`)

For texts of any length over any letters and any buffer of two characters or more:

* `BufferNeverOverrun == OpeningSpec => []TypeOK`: the token buffer is never written past its end, and `string_level`
  never goes below zero, which needs that it is positive as long as a string is open (`LexInv`);
* `NoCharacterIsLost == OpeningSpec => []NothingLost`: every character that is no white space is in one token,
  in order, or still in the buffer;
* `WordsAreRead == OpeningSpec => []ReadsTokens`: a text that is made of words (`WordsAssumption`: `Spelled`; and no
  letter is one of the special characters, `LettersAssumption`) is read as these words, any number of words of any length; the lexer
  gives up only if a word is longer than the buffer, and only the last word can be missing, when it ends the text;
* `FinishedFilesOpen == OpeningSpec => []OpensWhereWritten`: a finished file (`FinishedAssumption`: `BegunRight` and
  `EndedRight`) is never refused and opened nowhere but at its offset, for any window and any length of the file, its first line and
  its offset.

`KeepOK`, `EmitOK` and `FlushOK` say once what the three ways to treat a character do to the buffer; there is one lemma per
branch of `_update_state`. For the second theorem, `Grown` is what one character may do: it is refused, finds no room, is
white space, or is appended to what the tokens and the buffer spell together (`AllText`). That each branch does so
(`InStringGrows` ... `RegularGrows`) needs `BufInv`, that the buffer is empty between tokens.
For the third, `WordsInv` says which words were emitted (`Shows`) and where the lexer stands: between two
words, or in one, with the part of it in the buffer that was read (`InWord`). In a string `string_level` is the number of
brackets that are open (`Nesting`), and the state is `escape` exactly behind a backslash that escapes (`InsideString`).
A word of regular characters, a name or a bracket is emitted by the character behind it (`Ended`), so a step
that leaves a word can do what a step between words does (`ReadyStep`). `NextIs` says that what follows a word is white space or the
next word, which `LineFeedWord` needs for comments: the line feed behind one is a word of its own, the carriage return is not.
For the fourth, `FinishedInv` follows the file through its phases. That the lexer is `Clear` at the end of the first line
(though its state may be any of four) is what lets the number be read without clearing it; the scan has matched what
stands before it (`Scanning`), so `match` reaches 9 nowhere before the keyword (`NoEarlierKey`) and its end is always found
(`KeywordIsFound`); and a text of digits is an integer to the automaton of the number formats (`DigitsAreInt`), a fold
over the characters.

### Recursion

`XrefFormatProofs` states induction as facts about sets of numbers (`SetInductionOnNat`, `LeastNumber`, which the other
proof modules have as `Numbers!...`), derived from the
library's theorem on well-founded orders. With it a recursive *function* is shown to be what its definition says: the set of
lengths for which the function exists holds 0 and with each number the next. `Tables` (what a
file holds), `PairStart`, `Path`, the rows of `StreamDecode`
(`DecodedRow`, `DecodedRows`), what is written of an object in so many rounds (`Written`), a run of the parser (`Ran`), and the
community modules' `FlattenSeq` (`FlattenIs`, `FlattenAppend`) are treated this way. This is why the text of an object is
written in rounds: a function that calls itself for each part of an object has no such set of numbers to go through. The library's own induction
theorems take an operator as a parameter and cannot be used, and what a `RECURSIVE` operator computes cannot be proved.

### Only model-checked

* Liveness and the fairness in the refinements: `LoadingEnds`, `DerefEnds`, and `ImplementsChain` as a whole, of which
  the theorem proves the initial condition and the steps (`ImplementsChainSteps`). Fairness and ENABLED are out of the
  prover's reach.
* What the serializer's texts are read as: `WrittenReadsBack`, whose texts come from the recursive `FileText`. That the
  files of the runs are finished, with the tail that `pindf_doc_save_modif` writes among them, is checked with
  `FinishedAssumption`.

## What is left out of the models

* Composition of the lexer with the parser: the lexer is checked against the tokens that were written, and
  `Parser` and `ObjReader` start from tokens, as classes with a value. File offsets are places in a sequence, and widths (4-byte offsets in xref
  streams, `int` for `/Prev`, `atoll` on bytes without an end) are left out.
* `pindf_lex_from_buffer_options`: the lexer reads from a buffer as from a file; that it returns a token it has freed when a
  token to be ignored ends the buffer (`core/lexer.c:507`) is not modelled.
* The serializers for buffers and JSON, which only print, and reals.
* Memory that leaks without consequence (on error paths of the readers), and running out of memory.
* Decoding inside the cache: to `ObjCache` an object stream gives its members, or is no object stream. More than ten
  filters overrun `filter_array` (`pindf.c:264`); compressing is one call of `compress`.
* Destroying and copying of objects other than dictionaries: one cell stands for a value with its parts.
* What `/Length` as a reference stands for: the readers take the object number for the length, and so does the reference
  text in `FileReadsFirst`, which therefore says something useful of direct lengths only.
* Object streams that are members of each other: getobj calls itself without a bound, so
  the files of `obj_cache` have no such circle.
* Conversions of numbers on bytes without an end outside of the parser: the header of an object stream (`pindf.c:966`), the
  sections of a table, the offset behind `startxref`. They are taken as written; the hazard is that of `parser_leaves`.
* What a program does after memory was freed twice, or read that was never written.
* The cache and the log together: getobj does not look at the log, and the runs keep
  the two apart.

## Plan

Done: the modules above. What could follow:

1. The lexer under the object reader: `ObjReader` over the tokens of `Lexer` instead of a sequence.
2. Overflowing `/Index` forms (empty pairs, more than 512 numbers) in `Xref`.
3. Encoding in `StreamDecode`, with a save that fails half way in `IncrementalUpdate`.
