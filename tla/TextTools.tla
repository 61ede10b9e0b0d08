----------------------------- MODULE TextTools -----------------------------
(***************************************************************************)
(* The string routines of libmutils (mutils.c, string.c) as functions of   *)
(* a text that grows one character at a time.  A text is a sequence of     *)
(* one-character strings; a null pointer is NullText.                      *)
(***************************************************************************)
EXTENDS Integers, Sequences, SequencesExt

CONSTANTS
  TextChars,     \* the characters that may occur
  TextBound,     \* how long the text may get
  MaxTokenLen    \* MUTILS_MAX_TOKEN_LEN, 1024 in the code

ASSUME TextToolsAssumption ==
  TextChars \subseteq STRING /\ TextBound \in Nat /\ MaxTokenLen \in Nat \ {0}

VARIABLE textChars

TextInit == textChars = << >>
TextChar == /\ Len(textChars) < TextBound
            /\ \E c \in TextChars : textChars' = Append(textChars, c)

NullText == <<"NULL">>
Digits == {"0", "1", "2"}
Spaces == {" ", "\t"}
ToLower(c) == IF c = "A" THEN "a" ELSE c
StrLower(s) == [i \in DOMAIN s |-> ToLower(s[i])]
From(s, i) == SubSeq(s, i, Len(s))
Upto(s, i) == SubSeq(s, 1, i)
LastOf(s, chars) == SelectLastInSeq(s, LAMBDA c : c \in chars)
CutAtLast(s, chars) == From(s, LastOf(s, chars) + 1)

-----------------------------------------------------------------------------
(* Paths.                                                                  *)

MutilsBasename(path) == CutAtLast(path, {":", "/", "\\"})

Extension(path) ==
  LET base == MutilsBasename(path)
  IN IF LastOf(base, {"."}) = 0 THEN path ELSE CutAtLast(base, {"."})

(* The extension is a part of the path, and is changed there: what the     *)
(* caller gets, and what his path has become.                              *)
ExtensionLower(path) ==
  LET e == Extension(path)
  IN [ext |-> StrLower(e), path |-> Upto(path, Len(path) - Len(e)) \o StrLower(e)]

(* mutils_basename: the last "\" counts only where there is no "/".        *)
(* Mutant: the last of either kind.                                        *)
mutils_basenameEither(path) == CutAtLast(path, {"/", "\\"})
mutils_basename(path) ==
  IF LastOf(path, {"/"}) # 0 THEN CutAtLast(path, {"/"}) ELSE CutAtLast(path, {"\\"})

GetDirname(file) ==
  LET slash == LastOf(file, {"/"})
      back == LastOf(file, {"\\"})
  IN IF file = << >> THEN NullText
     ELSE IF slash # 0 THEN Upto(file, slash - 1)
     ELSE IF back # 0 THEN Upto(file, back - 1)
     ELSE <<".", "/">>

-----------------------------------------------------------------------------
(* Numbers.                                                                *)

(* Mutant: a number of whole triples is taken for one that has more.       *)
HowmanyCommasMore(buf) == Len(buf) \div 3
HowmanyCommas(buf) ==
  IF buf = << >> THEN 0
  ELSE IF Len(buf) % 3 = 0 THEN Len(buf) \div 3 - 1 ELSE Len(buf) \div 3

ReverseString(s) == Reverse(s)

(* The digits from the back, a comma after every third that is not the     *)
(* last.                                                                   *)
Commaize(buf) ==
  LET back == ReverseString(buf)
  IN ReverseString(FlattenSeq([i \in DOMAIN back |->
       IF i % 3 = 0 /\ i < Len(back) THEN <<back[i], ",">> ELSE <<back[i]>>]))

CleanBuf(buf, bytes) ==
  LET other == SelectInSubSeq(buf, 1, bytes, LAMBDA c : c \notin Digits)
  IN Upto(buf, IF other = 0 THEN bytes ELSE other - 1)

-----------------------------------------------------------------------------
(* Blanks.                                                                 *)

(* The first of a run of blanks becomes c, the others are left out.        *)
SpacesToChar(s, c) ==
  FlattenSeq([i \in DOMAIN s |->
    IF s[i] \notin Spaces THEN <<s[i]>>
    ELSE IF i > 1 /\ s[i - 1] \in Spaces THEN << >> ELSE <<c>>])

Rmallws(s) == SelectSeq(s, LAMBDA c : c \notin Spaces)

StripLeadingSpace(s) ==
  LET first == SelectInSeq(s, LAMBDA c : c \notin Spaces)
  IN IF first = 0 THEN << >> ELSE From(s, first)
(* Mutant: one blank at the end is taken for all of them.                  *)
StripTrailingSpaceOne(s) ==
  IF s # << >> /\ Last(s) \in Spaces THEN Front(s) ELSE s
StripTrailingSpace(s) == Upto(s, SelectLastInSeq(s, LAMBDA c : c \notin Spaces))

(* What is read, and what is left to read; "EOF" after the last character. *)
EatWhitespace(stream) ==
  LET stop == SelectInSeq(stream, LAMBDA c : c \notin Spaces)
  IN IF stop = 0 THEN <<"EOF", << >>>> ELSE <<stream[stop], From(stream, stop + 1)>>

-----------------------------------------------------------------------------
(* Searching.                                                              *)

(* mutilsStristr: where t begins, 0 for a null pointer.  Nothing is found  *)
(* in an empty text, not even nothing.                                     *)
Stristr(s, t) ==
  SelectInSubSeq([i \in DOMAIN s |-> i], 1, Len(s), LAMBDA i :
    IsPrefix(StrLower(t), StrLower(From(s, i))))

Strcasecmp(a, b) == StrLower(a) = StrLower(b)
Strncasecmp(a, b, n) ==
  Strcasecmp(Upto(a, IF n < Len(a) THEN n ELSE Len(a)),
             Upto(b, IF n < Len(b) THEN n ELSE Len(b)))

(* mutilsIsinname, by the first and the last character of the mask; every  *)
(* other star is dropped, and only the first place where the rest stands   *)
(* is looked at.  Mutant: that place need not be the beginning.            *)
AtBeginningAny(at) == at # 0
AtBeginning(at) == at = 1
IsInName(string, mask) ==
  LET plain == SelectSeq(mask, LAMBDA c : c # "*")
      at == Stristr(string, plain)
  IN CASE string = << >> \/ mask = << >> -> FALSE
       [] mask = <<"*">>                 -> TRUE
       [] mask[1] = "*" /\ Last(mask) = "*" /\ Len(mask) > 1 -> at # 0
       [] mask[1] = "*" /\ Last(mask) # "*" ->
            at # 0 /\ at = Len(string) - Len(plain) + 1
       [] mask[1] # "*" /\ Last(mask) = "*" -> AtBeginning(at)
       [] OTHER                          -> Strcasecmp(string, plain)

-----------------------------------------------------------------------------
(* Copying: the characters that stand in the buffer afterwards, NUL        *)
(* included, and how many were written.                                    *)

NUL == "\\0"
Bounded(s, n) == Upto(s, IF n < Len(s) THEN n ELSE Len(s))

Strncpy(src, n) == Bounded(src \o [i \in 1 .. n |-> NUL], n)
SafeStrcpy(src, n) == Append(Bounded(src, n), NUL)
Strncat(dst, src, n) == dst \o Bounded(src, n) \o <<NUL>>

(* mutilsSafeStrcat: a text that is too long ends the program.             *)
(* Mutant: the zero at its end is not counted.                             *)
TooLongBare(src, room) == Len(src) > room
TooLong(src, room) == Len(src) >= room
SafeStrcat(dst, src, length, size) ==
  LET room == size - Len(dst)
  IN IF TooLong(src, room) THEN NullText
     ELSE Strncat(dst, src, IF length < room THEN length ELSE room)

-----------------------------------------------------------------------------
(* Cutting up.                                                             *)

(* mutilsStrtok, called until it returns nothing.                          *)
Strtok(s, delims) ==
  LET Starts(i) == s[i] \notin delims /\ (i = 1 \/ s[i - 1] \in delims)
      stop(i) == LET d == SelectInSubSeq(s, i, Len(s), LAMBDA c : c \in delims)
                 IN IF d = 0 THEN Len(s) ELSE d - 1
      starts == SelectSeq([i \in DOMAIN s |-> i], Starts)
  IN [k \in DOMAIN starts |-> SubSeq(s, starts[k], stop(starts[k]))]

(* mutilsTokenize.  What is written past tbuf is "spilled".  A last token  *)
(* that is empty, or as long as tbuf, leaves what malloc left there; one   *)
(* that is shorter by a single character gets no zero at its end.          *)
(* Mutant: a token of a single character counts as none.                   *)
Garbage == <<"?">>
LastFitsLonger(last) == Len(last) \in 2 .. MaxTokenLen - 1
LastFits(last) == Len(last) \in 1 .. MaxTokenLen - 1
LastToken(last) ==
  IF ~LastFits(last) THEN Garbage
  ELSE IF Len(last) = MaxTokenLen - 1 THEN last \o Garbage ELSE last
Pieces(s, delim) ==
  LET cuts == <<0>> \o SelectSeq([i \in DOMAIN s |-> i], LAMBDA i : s[i] = delim)
              \o <<Len(s) + 1>>
  IN [k \in 1 .. Len(cuts) - 1 |-> SubSeq(s, cuts[k] + 1, cuts[k + 1] - 1)]
Tokenize(s, delim) ==
  LET pieces == Pieces(s, delim)
      last == Last(pieces)
      long == {k \in DOMAIN pieces : Len(pieces[k]) > MaxTokenLen}
      exact == {k \in 1 .. Len(pieces) - 1 : Len(pieces[k]) = MaxTokenLen}
  IN [tokens |->
        IF s = << >> \/ long # {} THEN NullText
        ELSE Front(pieces) \o <<LastToken(last)>>,
      spilled |-> \E k \in exact : \A l \in long : k < l]

(* mutilsWhich: the directories of PATH that are tried.                    *)
Directories(path) ==
  LET p == Pieces(path, ":") IN IF Last(p) = << >> THEN Front(p) ELSE p

(* mutilsParseURL of "http://" and the rest: digits are taken for the port *)
(* wherever they stand before the page; the code keeps 31 of them.         *)
(* Mutant: the colon is kept.                                              *)
HostPartColon(c) == c \notin Digits
HostPart(c) == c # ":" /\ c \notin Digits
ParseURL(rest, hostLen, pageLen) ==
  LET slash == SelectInSeq(rest, LAMBDA c : c = "/")
      front == IF slash = 0 THEN rest ELSE Upto(rest, slash - 1)
      digits == SelectSeq(front, LAMBDA c : c \in Digits)
      host == SelectSeq(front, HostPart)
  IN [ok |-> slash # 0,
      host |-> Bounded(host, hostLen - 1),
      port |-> IF digits = << >> THEN <<"8", "0">> ELSE digits,
      page |-> IF slash = 0 THEN << >> ELSE Strncpy(From(rest, slash), pageLen)]

-----------------------------------------------------------------------------
(* Properties.  Every way to cut the text in two gives a pair of texts.    *)

Holds(P(_, _)) ==
  \A k \in 0 .. Len(textChars) : P(Upto(textChars, k), From(textChars, k + 1))
Joined(parts, delim) ==
  FlattenSeq([k \in DOMAIN parts |-> IF k = 1 THEN parts[k] ELSE <<delim>> \o parts[k]])

(* Directory, separator and file name make up the path again, the two base *)
(* names agree on a path that has only "/" in it, and lowering the         *)
(* extension keeps the rest of the path (mutils.c:1026-1117, 1308-1335).   *)
PathsSplit ==
  LET p == textChars
      base == mutils_basename(p)
      sep == IF LastOf(p, {"/"}) # 0 THEN "/" ELSE "\\"
      e == ExtensionLower(p)
  IN /\ LastOf(p, {"/", "\\"}) # 0 => GetDirname(p) \o <<sep>> \o base = p
     /\ LastOf(p, {"/", "\\"}) = 0 => base = p
     /\ LastOf(p, {":", "\\"}) = 0 => MutilsBasename(p) = base
     /\ IsSuffix(MutilsBasename(p), base)
     /\ Strcasecmp(e.path, p) /\ IsSuffix(e.ext, e.path)
     /\ LastOf(MutilsBasename(p), {"."}) # 0 =>
          LastOf(e.ext, {".", "/", "\\", ":"}) = 0

(* The tokens of a text, joined, are the text, as far as every token is    *)
(* shorter than the buffer of mutilsTokenize, the last by two, and the     *)
(* text does not end in a delimiter (of an empty last token nothing is     *)
(* claimed); nothing is written past the buffer, and mutilsStrtok and      *)
(* mutilsWhich cut at the same places (mutils.c:1374-1456, 1238-1257,      *)
(* string.c:414-473).                                                      *)
Delimiters == {",", ":"}
TokensRejoin ==
  \A delim \in Delimiters :
    LET s == textChars
        t == Tokenize(s, delim)
        words == SelectSeq(t.tokens, LAMBDA p : p # << >>)
        pieces == Pieces(s, delim)
    IN s # << >> /\ Last(s) # delim /\ Len(Last(pieces)) < MaxTokenLen - 1
       /\ (\A k \in DOMAIN pieces : Len(pieces[k]) < MaxTokenLen) =>
         /\ ~t.spilled /\ Joined(t.tokens, delim) = s
         /\ \A k \in DOMAIN t.tokens : delim \notin ToSet(t.tokens[k])
         /\ Strtok(s, {delim}) = words
         /\ delim = ":" => Directories(s) = t.tokens

(* mutilsHowmanyCommas tells how many commas mutilsCommaize puts in, they  *)
(* stand before every third digit from the end, and taking them out gives  *)
(* the number back; mutilsCleanBuf keeps digits only, and stops where one  *)
(* is missing or at the end (mutils.c:290-418).                            *)
CommasCount ==
  LET once == SelectSeq(textChars, LAMBDA c : c # ",")
      n == once \o once
      commaized == Commaize(n)
      clean == CleanBuf(textChars, Len(textChars))
  IN /\ Len(commaized) = Len(n) + HowmanyCommas(n)
     /\ SelectSeq(commaized, LAMBDA c : c # ",") = n
     /\ \A i \in DOMAIN commaized : commaized[i] = "," <=> (Len(commaized) - i + 1) % 4 = 0
     /\ ToSet(clean) \subseteq Digits /\ IsPrefix(clean, textChars)
     /\ clean = textChars \/ textChars[Len(clean) + 1] \notin Digits

(* What a mask means: a star stands for any characters, the others for     *)
(* themselves in either case.  fits[i, j]: from the i-th character and the *)
(* j-th of the mask on.                                                    *)
Fits(string, mask) ==
  LET s == StrLower(string)
      m == StrLower(mask)
      fits[i \in 1 .. Len(s) + 1, j \in 1 .. Len(m) + 1] ==
        IF j > Len(m) THEN i > Len(s)
        ELSE IF m[j] = "*" THEN fits[i, j + 1] \/ (i <= Len(s) /\ fits[i + 1, j])
        ELSE i <= Len(s) /\ s[i] = m[j] /\ fits[i + 1, j + 1]
  IN fits[1, 1]
StarsAtEnds(mask) == \A i \in DOMAIN mask : mask[i] = "*" => i \in {1, Len(mask)}

(* "checks if the mask fits in the string" (mutils.c:694): nothing fits    *)
(* that the mask does not say, and what a mask without a star, with one at *)
(* its end or with one at each end says fits (mutils.c:725-804).           *)
MasksMatch ==
  Holds(LAMBDA s, m : s # << >> /\ m # << >> =>
    /\ (IsInName(s, m) => Fits(s, m))
    /\ (StarsAtEnds(m) /\ Fits(s, m) /\ (m[1] = "*" => Last(m) = "*") => IsInName(s, m)))

(* No copy leaves its buffer: of the size that the caller gives, the bytes *)
(* written are at most that many, and the text that was there is still     *)
(* the beginning (string.c:65-127, 299-372).                               *)
CopiesStayInside ==
  Holds(LAMBDA dst, src : \A n \in 1 .. TextBound :
    /\ Len(Strncpy(src, n)) = n
    /\ Len(SafeStrcpy(src, n - 1)) <= n
    /\ LET cat == SafeStrcat(dst, src, Len(src), n)
       IN Len(dst) < n /\ cat # NullText =>
            Len(cat) <= n /\ cat = dst \o src \o <<NUL>>)

(* "parse a URL of the form http://host:port/thepage.html,                 *)
(* http://host/thepage.html" (mutils.c:422-424): the text in all the ways  *)
(* in which it is host, port and page.                                     *)
Plain(s) == \A i \in DOMAIN s : s[i] \notin {":", "/"}
ParsesTo(host, port, page) ==
  LET u == ParseURL(textChars, TextBound + 1, TextBound)
  IN /\ u.ok /\ u.host = host /\ u.port = port
     /\ Upto(u.page, Len(page)) = page
     /\ \A i \in Len(page) + 1 .. TextBound : u.page[i] = NUL

(* A host without digits, the port that is given or 80, and the page; and  *)
(* a text without a page is refused (mutils.c:447-554).                    *)
UrlsParse ==
  /\ ParseURL(textChars, TextBound + 1, TextBound).ok => "/" \in ToSet(textChars)
  /\ \A h \in 0 .. Len(textChars) : \A p \in h .. Len(textChars) :
    LET host == Upto(textChars, h)
        port == SubSeq(textChars, h + 2, p)
        page == From(textChars, p + 1)
    IN Plain(host) /\ ToSet(host) \cap Digits = {} /\ page # << >> /\ page[1] = "/" =>
         /\ p = h => ParsesTo(host, <<"8", "0">>, page)
         /\ p > h + 1 /\ textChars[h + 1] = ":" /\ ToSet(port) \subseteq Digits =>
              ParsesTo(host, port, page)

(* Stripping takes blanks from the ends and nothing else, and leaves none  *)
(* there; mutilsSpacesToChar leaves the words and no two blanks between    *)
(* them; mutilsRmallws leaves the words and no blank (mutils.c:578-648,    *)
(* 894-959).                                                               *)
BlanksGo ==
  LET s == StripTrailingSpace(StripLeadingSpace(textChars))
      single == SpacesToChar(textChars, " ")
      Blank(t) == ToSet(t) \subseteq Spaces
  IN /\ \E k, l \in 0 .. Len(textChars) :
          /\ k + Len(s) + l = Len(textChars)
          /\ Blank(Upto(textChars, k)) /\ Blank(From(textChars, k + Len(s) + 1))
          /\ s = SubSeq(textChars, k + 1, k + Len(s))
     /\ s # << >> => s[1] \notin Spaces /\ Last(s) \notin Spaces
     /\ EatWhitespace(textChars)[1] = IF s = << >> THEN "EOF" ELSE s[1]
     /\ Strtok(single, Spaces) = Strtok(textChars, Spaces)
     /\ \A i \in 1 .. Len(single) - 1 : ~Blank(<<single[i], single[i + 1]>>)
     /\ Rmallws(textChars) = FlattenSeq(Strtok(textChars, Spaces))

(* Nothing that is cut or copied leaves its buffer or loses its end, up to *)
(* the lengths named above (mutils.c:1374-1456, string.c:65-127, 299-372). *)
BuffersHold == TokensRejoin /\ CopiesStayInside

(* What paths, URLs, numbers and blanks are taken apart into makes up the  *)
(* text again (mutils.c:290-554, 578-648, 894-959, 1026-1117, 1308-1335).  *)
TextsRejoin == PathsSplit /\ UrlsParse /\ CommasCount /\ BlanksGo
=============================================================================
