-------------------------------- MODULE IniFile --------------------------------
(***************************************************************************)
(* The configuration files of the programs (wcx_utils/INIFileOP.cpp): how  *)
(* ConfigGetKey() finds a value and what ConfigSetKey() makes of a file.   *)
(*                                                                         *)
(* A file is a sequence of lines as FileGetLine() returns them and a flag: *)
(* does its last line end with a newline.  A line is a record of           *)
(*   t     "section", "open" (a bracket that is not closed), "key",        *)
(*         "text" (no `=', or nothing before it) or "note" (blank, or `#') *)
(*   name  of the section or key                                           *)
(*   text  the value, a sequence of pieces                                 *)
(*   more  it ends with `+': the next line continues it                    *)
(* Blanks are trimmed by the code and left out here; MaxText stands for    *)
(* MAX_CFG_BUF, the bytes of a continued line.                             *)
(***************************************************************************)
EXTENDS Integers, Sequences, FiniteSets

CONSTANTS
    MaxText,
    Words    \* names and pieces of text

(* A piece fits. *)
ASSUME MaxTextAssumption == MaxText \in Nat \ {0}
ASSUME WordsAssumption == "joined" \in Words

Missing == [exists |-> FALSE, lines |-> <<>>, ended |-> TRUE]
Emptied == [exists |-> TRUE, lines |-> <<>>, ended |-> TRUE]

Line == [t : {"section", "open", "key", "text", "note"}, name : Words, text : Seq(Words), more : BOOLEAN]

Section(name) == [t |-> "section", name |-> name, text |-> <<>>, more |-> FALSE]
KeyLine(key, value) == [t |-> "key", name |-> key, text |-> value, more |-> FALSE]

(* What a line adds to the one it continues. *)
Raw(line) == IF line.t \in {"section", "key"} THEN <<line.name>> \o line.text ELSE line.text

Least(S) == CHOOSE i \in S : \A j \in S : i <= j

-----------------------------------------------------------------------------
(* Reading.                                                                 *)

(* The first loop of ConfigGetKey(): continuation lines do not count here.  *)
FindSection(lines, section) ==
    LET stops == {i \in DOMAIN lines :
                     lines[i].t = "open" \/ (lines[i].t = "section" /\ lines[i].name = section)}
    IN  IF stops = {} THEN [ret |-> "CFG_SECTION_NOT_FOUND", line |-> 0]
        ELSE IF lines[Least(stops)].t = "open" THEN [ret |-> "CFG_ERR_FILE_FORMAT", line |-> 0]
        ELSE [ret |-> "CFG_OK", line |-> Least(stops)]

(* The last line of the one that begins at i. *)
EndOfLine(lines, i) == Least({j \in i..Len(lines) : ~lines[j].more \/ j = Len(lines)})

(* The text of a line with those that continue it. *)
TextOf(parts) ==
    LET f[j \in 1..Len(parts)] ==
            IF j = 1 THEN parts[1].text ELSE f[j - 1] \o Raw(parts[j])
    IN  f[Len(parts)]

Joined(lines, i) == TextOf(SubSeq(lines, i, EndOfLine(lines, i)))

NotFound(ret) == [ret |-> ret, line |-> 0, count |-> 0, value |-> <<>>]

(* The second loop, from line i on. *)
FindKey(lines, key, first) ==
    LET f[i \in first..(Len(lines) + 1)] ==
        IF i > Len(lines) \/ lines[i].t \in {"section", "open"} THEN NotFound("CFG_KEY_NOT_FOUND")
        ELSE IF lines[i].t = "note" THEN f[i + 1]
        ELSE IF Len(Joined(lines, i)) > MaxText THEN NotFound("CFG_ERR_EXCEED_BUF_SIZE")
        ELSE IF lines[i].t = "text" THEN NotFound("CFG_ERR_FILE_FORMAT")
        ELSE IF lines[i].name # key THEN f[EndOfLine(lines, i) + 1]
        ELSE [ret |-> "CFG_OK", line |-> i,
              count |-> EndOfLine(lines, i) - i + 1, value |-> Joined(lines, i)]
    IN  f[first]

ConfigGetKey(file, section, key) ==
    LET s == FindSection(file.lines, section)
    IN  IF ~file.exists THEN NotFound("CFG_ERR_OPEN_FILE")
        ELSE IF s.ret # "CFG_OK" THEN NotFound(s.ret)
        ELSE FindKey(file.lines, key, s.line + 1)

-----------------------------------------------------------------------------
(* Writing.                                                                 *)

(* What ConfigSetKey() does for each outcome of ConfigGetKey(). *)
Appends(ret) == ret \in {"CFG_ERR_OPEN_FILE", "CFG_SECTION_NOT_FOUND"}
Rewrites(ret) == ret \in {"CFG_KEY_NOT_FOUND", "CFG_OK"}

(* Mutant: the file is opened for writing and not for appending. *)
Append2Over(file, section, key, value) ==
    [exists |-> TRUE, ended |-> TRUE, lines |-> <<Section(section), KeyLine(key, value)>>]

(* Two lines at the end.  When the last line has no newline, the section is *)
(* written behind it: a value grows, a section changes its name.            *)
Append2(file, section, key, value) ==
    LET n == Len(file.lines)
        last == file.lines[n]
        tail == <<KeyLine(key, value)>>
    IN  [exists |-> TRUE, ended |-> TRUE,
         lines |-> IF file.ended \/ n = 0 THEN file.lines \o <<Section(section)>> \o tail
                   ELSE SubSeq(file.lines, 1, n - 1) \o
                        <<[last EXCEPT !.text = @ \o <<section>>,
                                       !.name = IF last.t = "section" THEN "joined" ELSE @,
                                       !.more = FALSE]>> \o tail]

(* Mutant: lines are left out although the key has none. *)
RewrittenOver(file, section, key, value) ==
    LET header == FindSection(file.lines, section).line
    IN  [exists |-> TRUE, ended |-> TRUE,
         lines |-> SubSeq(file.lines, 1, header) \o <<KeyLine(key, value)>> \o
                   SubSeq(file.lines, header + 2, Len(file.lines))]

(* The temporary file when the key goes behind the header of its section,   *)
(* or takes the place of the lines it had.                                  *)
Rewritten(file, section, key, value) ==
    LET found == ConfigGetKey(file, section, key)
        before == IF found.ret = "CFG_OK" THEN found.line - 1
                  ELSE FindSection(file.lines, section).line
    IN  [exists |-> TRUE, ended |-> TRUE,
         lines |-> SubSeq(file.lines, 1, before) \o <<KeyLine(key, value)>> \o
                   SubSeq(file.lines, before + found.count + 1, Len(file.lines))]
=============================================================================
