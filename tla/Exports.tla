-------------------------------- MODULE Exports --------------------------------
(***************************************************************************)
(* The files a report is exported to: the escaping of its cells for CSV    *)
(* and XML, the cells of the worksheet, and the archive they are packed    *)
(* into; and what a reader of the two formats makes of them.  A text is a  *)
(* sequence of characters; in a workbook, none of them a control character *)
(* or a carriage return.  Nothing here writes: a behaviour stands for one  *)
(* export of one table.                                                    *)
(***************************************************************************)
EXTENDS Queries

CONSTANTS
    Letters,      \* of the alphabet of column names, 26 in the code
    Tables        \* bound: the tables exported, the headers first

\* There are headers, and every row has a cell for each.
ASSUME ExportsAssumption ==
    /\ Letters \in Nat \ {0, 1}
    /\ Tables \subseteq Seq(Seq(Seq(STRING)))
    /\ \A rows \in Tables :
        /\ Len(rows) > 0
        /\ \A n \in DOMAIN rows : Len(rows[n]) > 0 /\ Len(rows[n]) = Len(rows[1])

VARIABLE table

\* The characters with a meaning to a format (a newline stands for both of its
\* characters), and the entities of XML, whose names count as one character.
Special == {"comma", "quote", "newline"}

Markup == <<"&", "<", ">", "quote", "'">>

EntityNames == <<"amp;", "lt;", "gt;", "quot;", "apos;">>

Entity(c) == <<"&", EntityNames[CHOOSE i \in DOMAIN Markup : Markup[i] = c]>>

\* parts.join(separator), of texts
Joined(parts, separator) ==
    LET after == FlattenSeq([i \in DOMAIN parts |-> <<separator>> \o parts[i]])
    IN IF after = <<>> THEN <<>> ELSE Tail(after)

\* text.replace(/c/g, by)
Replaced(text, c, by) ==
    FlattenSeq([i \in DOMAIN text |-> IF text[i] = c THEN by ELSE <<text[i]>>])

-------------------------------------------------------------------------------
(* CSV *)

\* Variant: cells of several lines are not quoted.
EscapeLess(cell) ==
    IF Range(cell) \cap {"comma", "quote"} = {} THEN cell
    ELSE <<"quote">> \o Replaced(cell, "quote", <<"quote", "quote">>) \o <<"quote">>

EscapeCsv(cell) ==
    IF Range(cell) \cap Special = {} THEN cell
    ELSE <<"quote">> \o Replaced(cell, "quote", <<"quote", "quote">>) \o <<"quote">>

ToCsv(rows) ==
    Joined([n \in DOMAIN rows |->
                Joined([k \in DOMAIN rows[n] |-> EscapeCsv(rows[n][k])], "comma")],
           "newline")

\* A reader of CSV after some of the text: the rows and cells it has ended, the
\* cell it is in, and whether that is open, within quotes or just after them.
CsvStart == [rows |-> <<>>, row |-> <<>>, cell |-> <<>>, mode |-> "open"]

EndCell(s) == [s EXCEPT !.row = Append(@, s.cell), !.cell = <<>>, !.mode = "open"]

EndRow(s) == [EndCell(s) EXCEPT !.rows = Append(@, EndCell(s).row), !.row = <<>>]

ReadCsvChar(s, c) ==
    CASE s.mode = "quoted" /\ c = "quote" -> [s EXCEPT !.mode = "closed"]
      [] s.mode = "quoted" /\ c # "quote" -> [s EXCEPT !.cell = Append(@, c)]
      [] s.mode = "closed" /\ c = "quote" ->
            [s EXCEPT !.cell = Append(@, c), !.mode = "quoted"]
      [] s.mode = "open" /\ c = "quote" -> [s EXCEPT !.mode = "quoted"]
      [] s.mode # "quoted" /\ c = "comma" -> EndCell(s)
      [] s.mode # "quoted" /\ c = "newline" -> EndRow(s)
      [] OTHER -> [s EXCEPT !.cell = Append(@, c)]

ReadCsv(text) == EndRow(FoldLeft(ReadCsvChar, CsvStart, text)).rows

-------------------------------------------------------------------------------
(* The worksheet *)

\* One character after the other, `&' first.
EscapeXml(text) == FoldLeft(LAMBDA t, c : Replaced(t, c, Entity(c)), text, Markup)

\* A reader of XML after some of the text: the text it stands for, and whether
\* the name of an entity comes next.  An entity is taken for its character,
\* and markup for no text.
XmlStart == [text |-> <<>>, entity |-> FALSE]

ReadXmlChar(s, c) ==
    CASE c = "&" -> [s EXCEPT !.entity = TRUE]
      [] c = "<" -> s
      [] c \notin {"&", "<"} /\ s.entity ->
            [text |-> s.text \o SetToSeq({d \in Range(Markup) : Entity(d) = <<"&", c>>}),
             entity |-> FALSE]
      [] c \notin {"&", "<"} /\ ~s.entity -> [s EXCEPT !.text = Append(@, c)]

ReadXml(text) == FoldLeft(ReadXmlChar, XmlStart, text).text

\* columnName: the letters of a column, the last one first.
ColumnName(column) ==
    LET Name[n \in 0 .. column] ==
            IF n = 0 THEN <<>>
            ELSE LET remainder == (n - 1) % Letters
                 IN Name[(n - remainder) \div Letters] \o <<remainder>>
    IN Name[column]

DataStartRow == 5

LastRow(rows) == Max({DataStartRow, DataStartRow + Len(rows) - 1})

\* The cells below the title, each at its reference: headers, whose wording is
\* left out, in row 4.
SheetCells(headers, rows) ==
    {[ref |-> <<ColumnName(k), 4>>, text |-> EscapeXml(headers[k])] : k \in DOMAIN headers}
        \cup
    UNION {{[ref |-> <<ColumnName(k), DataStartRow + n - 1>>,
             text |-> EscapeXml(rows[n][k])] : k \in DOMAIN rows[n]} : n \in DOMAIN rows}

\* autoFilter
FilterRange(headers, rows) ==
    [first |-> <<ColumnName(1), 4>>, last |-> <<ColumnName(Len(headers)), LastRow(rows)>>]

\* A reader takes letters for digits from one up, the first the most.
ColumnNumber(name) == FoldLeft(LAMBDA n, letter : n * Letters + letter + 1, 0, name)

ReadSheet(cells) ==
    [at \in {<<ColumnNumber(c.ref[1]), c.ref[2]>> : c \in cells} |->
        {ReadXml(c.text) : c \in {d \in cells : <<ColumnNumber(d.ref[1]), d.ref[2]>> = at}}]

-------------------------------------------------------------------------------
(* The archive *)

LocalHeader == 30

CentralHeader == 46

\* The files of a workbook: the bytes of their names, from [Content_Types].xml to
\* xl/worksheets/sheet1.xml, and of their contents.  The last one grows with the
\* table; the others differ.
Files(rows) ==
    LET names == <<19, 11, 16, 17, 15, 26, 13, 24>>
    IN [i \in DOMAIN names |->
            [name |-> names[i],
             size |-> IF i = Len(names) THEN Len(FlattenSeq(FlattenSeq(rows))) ELSE i]]

Bytes(spans) == FoldLeft(+, 0, spans)

\* Variant: the names of earlier files are left out of the offset.
OffsetOfContents(files, i) ==
    Bytes([k \in 1 .. i - 1 |-> LocalHeader + files[k].size])

\* offset, when the i-th file is added.
OffsetOf(files, i) ==
    Bytes([k \in 1 .. i - 1 |-> LocalHeader + files[k].name + files[k].size])

\* zip: the parts of the archive one after the other, and its end record.
Archive(files) ==
    LET locals == FlattenSeq([i \in DOMAIN files |->
            <<[part |-> "local", file |-> i, bytes |-> LocalHeader],
              [part |-> "name", file |-> i, bytes |-> files[i].name],
              [part |-> "content", file |-> i, bytes |-> files[i].size]>>])
        central == FlattenSeq([i \in DOMAIN files |->
            <<[part |-> "entry", file |-> i, bytes |-> CentralHeader],
              [part |-> "name", file |-> i, bytes |-> files[i].name]>>])
    IN [parts |-> locals \o central,
        entryOffset |-> [i \in DOMAIN files |-> OffsetOf(files, i)],
        directorySize |-> Bytes([i \in DOMAIN files |-> CentralHeader + files[i].name]),
        directoryOffset |-> OffsetOf(files, Len(files) + 1),
        count |-> Len(files)]

\* Where each part of an archive begins, and where the last one ends.
Begins(parts) == FoldLeft(LAMBDA at, p : Append(at, Last(at) + p.bytes), <<0>>, parts)

-------------------------------------------------------------------------------
(* Properties *)

ExportsInit == table \in Tables

ExportsSpec == ExportsInit /\ [][FALSE]_table

CsvReadsBack == ReadCsv(ToCsv(table)) = table

\* Every cell is at its place, and the filter spans exactly the header row and
\* the cells below it, or one row if there are none.
SheetReadsBack ==
    LET headers == Head(table)
        rows == Tail(table)
        range == FilterRange(headers, rows)
        sheet == ReadSheet(SheetCells(headers, rows))
    IN /\ \A k \in DOMAIN headers : sheet[<<k, 4>>] = {headers[k]}
       /\ \A n \in DOMAIN rows : \A k \in DOMAIN rows[n] :
            sheet[<<k, DataStartRow + n - 1>>] = {rows[n][k]}
       /\ ColumnNumber(range.first[1]) = 1
       /\ ColumnNumber(range.last[1]) = Max({at[1] : at \in DOMAIN sheet})
       /\ range.last[2] = Max({at[2] : at \in DOMAIN sheet} \cup {DataStartRow})

\* The end record leads to the directory, and the directory to every file.
ArchiveOpens ==
    LET files == Files(Tail(table))
        archive == Archive(files)
        begins == Begins(archive.parts)
        Leads(offset, part, i) ==
            \E n \in DOMAIN archive.parts :
                /\ begins[n] = offset
                /\ archive.parts[n].part = part
                /\ archive.parts[n].file = i
    IN /\ Leads(archive.directoryOffset, "entry", 1)
       /\ \A i \in 1 .. archive.count : Leads(archive.entryOffset[i], "local", i)
       /\ archive.directoryOffset + archive.directorySize =
            Last(begins)

\* Whatever customers, foods and coupons are called, a reader of the CSV file
\* gets the table back, and a reader who opens the workbook finds every cell in
\* its place (escapeCsv, escapeXml, worksheetXml, zip).  For the workbook this
\* leaves out control characters and carriage returns: the code keeps them, and
\* readers of XML refuse the former and change the latter.
ExportsReadBack == CsvReadsBack /\ SheetReadsBack /\ ArchiveOpens
===============================================================================
