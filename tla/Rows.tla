--------------------------------- MODULE Rows ---------------------------------
(***************************************************************************)
(* The lines a listing prints (render_value to json_file of                *)
(* src/rust/src/main.rs), as bytes.  o is the command line's struct Cli.   *)
(***************************************************************************)
EXTENDS Json

CONSTANT DefaultWidth  \* of each column

Column == <<"path", "name", "type", "value">>
Label ==
  [c \in ToSet(Column) |-> CASE c = "path" -> <<112, 97, 116, 104>> [] c = "name" -> <<110, 97, 109, 101>>
                             [] c = "type" -> <<116, 121, 112, 101>>
                             [] c = "value" -> <<118, 97, 108, 117, 101>>]

\* The representations of a value, as the type column names them.
TypeName ==
  [t \in {"utf8", "pb", "hex"} |-> CASE t = "utf8" -> <<117, 116, 102, 56>> [] t = "pb" -> <<112, 98>>
                                   [] t = "hex" -> <<104, 101, 120>>]

Tab == 9
LineFeed == 10
Return == 13
Blank == 32
Comma == 44
Bar == 124
Ellipsis == Utf8(8230)
Divides  == Utf8(8739)
AnsiName  == <<27, 91, 51, 56, 59, 53, 59, 50, 48, 56, 109>>
AnsiValue == <<27, 91, 51, 56, 59, 53, 59, 49, 49, 55, 109>>
AnsiReset == <<27, 91, 48, 109>>

Joined(parts, sep) ==
  FlattenSeq([k \in DOMAIN parts |-> (IF k = 1 THEN <<>> ELSE sep) \o parts[k]])
Repeat(b, n) == [k \in 1..Max({0, n}) |-> b]
Decimal(n) ==
  LET digits[m \in 0..n] == IF m < 10 THEN <<48 + m>> ELSE digits[m \div 10] \o <<48 + (m % 10)>>
  IN digits[n]
Hex(s) == FlattenSeq([k \in DOMAIN s |-> <<HexDigit[s[k] \div 16 + 1], HexDigit[(s[k] % 16) + 1]>>])

-----------------------------------------------------------------------------
(* Cells                                                                   *)

\* The columns of a listing.
Columns(o) ==
  (IF o.recurse THEN <<"path">> ELSE <<>>) \o <<"name">>
  \o (IF o.values /\ o.utf8 /\ o.fmt # "Csv" THEN <<"type">> ELSE <<>>)
  \o (IF o.values THEN <<"value">> ELSE <<>>)

Present(o) == ToSet(Columns(o))

\* --cols gives widths to the present columns in display order.
Width(o, column) ==
  LET k == CHOOSE n \in DOMAIN Columns(o) : Columns(o)[n] = column
  IN IF k <= Len(o.cols) THEN o.cols[k] ELSE DefaultWidth[column]

\* render_value
RenderValue(o, raw) ==
  IF o.utf8 /\ o.fmt # "Csv" /\ IsDisplayText(raw) THEN [type |-> "utf8", text |-> raw]
  ELSE IF o.hex THEN [type |-> "hex", text |-> Hex(raw)]
  ELSE [type |-> "pb", text |-> Encode(raw)]

KeepsWidth(width) == width
MinusOne(width) == width - 1

\* Code points kept of a text that is cut: the ellipsis takes one.
Kept(width) == MinusOne(width)

\* fit_cell: at most width code points, of a path the last ones.
FitCell(s, width, keepEnd) ==
  IF width = 0 \/ CountCodePoints(s) <= width THEN s
  ELSE IF keepEnd
  THEN Ellipsis \o (IF Kept(width) = 0 THEN <<>> ELSE SubSeq(s, SuffixStart(s, Kept(width)), Len(s)))
  ELSE SubSeq(s, 1, PrefixBytes(s, Kept(width))) \o Ellipsis

\* escape_bars
EscapeBars(o, s) ==
  FlattenSeq([k \in DOMAIN s |-> IF s[k] # Bar THEN <<s[k]>>
                             ELSE IF o.fmt = "Table" THEN Divides ELSE <<Backslash, Bar>>])

QuotesOnly(s) == s
DoublesQuotes(s) == FlattenSeq([k \in DOMAIN s |-> IF s[k] = Quote THEN <<Quote, Quote>> ELSE <<s[k]>>])

\* The text between the quotes of a CSV field.
Quoted(s) == DoublesQuotes(s)

\* csv_field
CsvField(s) ==
  IF ToSet(s) \cap {Comma, Quote, LineFeed, Return} = {} THEN s
  ELSE <<Quote>> \o Quoted(s) \o <<Quote>>

-----------------------------------------------------------------------------
(* Framed rows                                                             *)

Colored(o, column) == o.useColor /\ o.fmt = "Table" /\ column \in {"name", "value"}

\* put_cell
Cell(o, column, text) ==
  (IF Colored(o, column) THEN (IF column = "name" THEN AnsiName ELSE AnsiValue) \o text \o AnsiReset
   ELSE text)
  \o Repeat(Blank, Width(o, column) - CountCodePoints(text))

\* framed_row; CellOf(column) is the text of a cell.
FramedRow(o, CellOf(_)) ==
  FlattenSeq([k \in DOMAIN Columns(o) |->
            <<Bar, Blank>> \o Cell(o, Columns(o)[k], CellOf(Columns(o)[k])) \o <<Blank>>])
  \o <<Bar, LineFeed>>

\* table_border: a width of zero is that of the label.
Border(o) ==
  LET corner == IF o.fmt = "Table" THEN <<43>> ELSE <<Bar>>
      width(c) == IF Width(o, c) # 0 THEN Width(o, c) ELSE Len(Label[c])
  IN corner \o FlattenSeq([k \in DOMAIN Columns(o) |-> Repeat(45, width(Columns(o)[k]) + 2) \o corner])
     \o <<LineFeed>>

HeaderRow(o) == FramedRow(o, LAMBDA c : FitCell(Label[c], Width(o, c), FALSE))

-----------------------------------------------------------------------------
(* Rows                                                                    *)

Paint(o, ansi, text) == IF o.useColor THEN ansi \o text \o AnsiReset ELSE text

\* print_value_tsv
TsvValue(o, text, rawLen) ==
  LET shown == IF o.maxWidth > 0 THEN PrefixBytes(text, o.maxWidth) ELSE Len(text)
  IN Paint(o, AnsiValue, SubSeq(text, 1, shown))
     \o IF shown = Len(text) THEN <<>>
        ELSE Ellipsis \o <<40>> \o Decimal(rawLen) \o <<32, 98, 121, 116, 101, 115, 41>>

TsvRow(o, path, name, value) ==
  LET v == RenderValue(o, value)
  IN (IF o.recurse THEN path \o <<Tab>> ELSE <<>>) \o Paint(o, AnsiName, name)
     \o (IF ~o.values THEN <<>>
         ELSE (IF "type" \in Present(o) THEN <<Tab>> \o TypeName[v.type] ELSE <<>>)
              \o <<Tab>> \o TsvValue(o, v.text, Len(value)))
     \o <<LineFeed>>

CsvHeader(o) == Joined([k \in DOMAIN Columns(o) |-> Label[Columns(o)[k]]], <<Comma>>) \o <<LineFeed>>

CsvRow(o, path, name, value) ==
  Joined((IF o.recurse THEN <<CsvField(path)>> ELSE <<>>) \o <<CsvField(Encode(name))>>
         \o (IF o.values THEN <<CsvField(RenderValue(o, value).text)>> ELSE <<>>), <<Comma>>)
  \o <<LineFeed>>

CellText(o, column, path, name, value) ==
  CASE column = "path" -> FitCell(path, Width(o, column), TRUE)
    [] column = "name" -> FitCell(Encode(name), Width(o, column), FALSE)
    [] column = "type" -> FitCell(TypeName[RenderValue(o, value).type], Width(o, column), FALSE)
    [] column = "value" -> FitCell(RenderValue(o, value).text, Width(o, column), FALSE)

TableRow(o, path, name, value) ==
  FramedRow(o, LAMBDA c : EscapeBars(o, CellText(o, c, path, name, value)))

-----------------------------------------------------------------------------
(* JSON                                                                    *)

PathKey == Label["path"]
NameKey == Label["name"]
PbKey(key) == key \o <<95, 112, 98>>                 \* key_pb
XattrsKey == <<120, 97, 116, 116, 114, 115>>         \* xattrs
ColonByte == <<58>>

\* "key":"text", the key and the text by what Utf8OrPb says.
Field(key, s) ==
  LET f == Utf8OrPb(key, PbKey(key), s) IN <<Quote>> \o f.key \o <<Quote>> \o ColonByte \o f.text

Braced(s) == <<123>> \o s \o <<125>>

\* An entry of the array a listing of names is, from the second one on behind
\* a comma.
JsonEntry(o, first, path, name) ==
  (IF first THEN <<>> ELSE <<Comma>>)
  \o IF o.recurse THEN Braced(Field(PathKey, path) \o <<Comma>> \o Field(NameKey, name))
     ELSE JsonString(name)

AnyName(name, utf8) == TRUE
SameKind(name, utf8) == IsUtf8(name) = utf8

\* Which names go into which section: json_file goes through them twice.
InSection(name, utf8) == SameKind(name, utf8)
Those(read, utf8) ==
  FlattenSeq([k \in DOMAIN read |-> IF InSection(read[k].name, utf8) THEN <<read[k]>> ELSE <<>>])

\* The values of a JSON line: the names that are UTF-8, then the others.
Section(read, utf8) ==
  LET in == Those(read, utf8)
      pair(r) == JsonString(IF utf8 THEN r.name ELSE Encode(r.name)) \o ColonByte
                 \o JsonString(Encode(r.value))
  IN IF in = <<>> THEN <<>>
     ELSE <<Comma, Quote>> \o (IF utf8 THEN XattrsKey ELSE PbKey(XattrsKey)) \o <<Quote>> \o ColonByte
          \o Braced(Joined([k \in DOMAIN in |-> pair(in[k])], <<Comma>>))

\* json_file: a line for the attributes that could be read, none if there are
\* none.
JsonFile(path, read) ==
  IF read = <<>> THEN <<>>
  ELSE Braced(Field(PathKey, path) \o Section(read, TRUE) \o Section(read, FALSE)) \o <<LineFeed>>
=============================================================================
