----------------------------- MODULE Subtitles -----------------------------
(***************************************************************************)
(* internal/library, subs.go and lang.go: which of the subtitle files of a *)
(* folder belong to a video, and which of them leads.  The first track is  *)
(* the one players preselect.                                              *)
(*                                                                         *)
(* A file name is the sequence of its tokens: what parseSubSuffix gets by  *)
(* splitting at ".", "_", "-" and spaces, in lower case.  The video's own  *)
(* name counts as one token, with the dot that must follow it, and its     *)
(* extension as another.  A language is a number, 0 for none; numbers      *)
(* stand in the order of the tags.  walk and listSubtitleFiles put into    *)
(* the pool only files with a subtitle extension.                          *)
(***************************************************************************)
EXTENDS Naturals, Sequences, FiniteSets, Functions

CONSTANTS
  Base, Ext,       \* the video is called Base "." Ext
  langGroups,      \* the tokens that stand for each language
  ForcedTokens,    \* the qualifiers that mark a forced track
  SDHTokens,       \* the qualifiers that mark a track for the deaf
  PlainTokens,     \* the qualifiers that mark nothing
  Files,           \* the subtitle files that may be in the pool
  Prefs,           \* the -sub-lang lists
  MaxPool          \* bound on the number of files in the pool

subQualifiers == ForcedTokens \cup SDHTokens \cup PlainTokens

\* buildLangAliases: the language each token stands for.
langAliases ==
  [t \in UNION Range(langGroups) |-> CHOOSE l \in DOMAIN langGroups : t \in langGroups[l]]

\* A subtitle file: its folder, the tokens of its name without the extension,
\* whether it is text, and where its name sorts without regard to case.
\* buildLangAliases panics when a token stands for two languages.
ASSUME SubtitlesAssumption ==
  /\ DOMAIN langGroups \subseteq Nat \ {0}
  /\ Prefs \subseteq Seq(Nat)
  /\ \A l, m \in DOMAIN langGroups : l # m => langGroups[l] \cap langGroups[m] = {}
  /\ DOMAIN langAliases \cap subQualifiers = {}
  /\ {Base, Ext} \cap (DOMAIN langAliases \cup subQualifiers) = {}
  /\ \A f \in Files :
       f.stem \in Seq(Range(f.stem)) \ {<< >>} /\ f.text \in BOOLEAN /\ f.name \in Nat

VARIABLES
  pref,     \* Options.SubLang
  pool,     \* the subtitle files of the folder and of its subtitle folders
  left,     \* those the loop of matchSubtitles has not come to
  out,      \* the tracks found
  sorted    \* sortSubtitles has run

vars == <<pref, pool, left, out, sorted>>

NoLang == 0

-----------------------------------------------------------------------------
(* parseSubSuffix *)

First(places) == CHOOSE k \in places : \A j \in places : k <= j

\* The first language tag counts; a token that is neither a tag nor a
\* qualifier changes nothing.
parseSubSuffix(suffix) ==
  LET tags   == {k \in DOMAIN suffix : suffix[k] \in DOMAIN langAliases}
      Has(S) == Range(suffix) \cap S # {}
  IN  [lang       |-> IF tags = {} THEN NoLang ELSE langAliases[suffix[First(tags)]],
       forced     |-> Has(ForcedTokens),
       sdh        |-> Has(SDHTokens),
       recognised |-> suffix = << >> \/ tags # {} \/ Has(subQualifiers)]

-----------------------------------------------------------------------------
(* sortSubtitles *)

\* The place in the list; without a language, just behind it; else, last.
langRank(lang, prefs) ==
  LET listed == {i \in DOMAIN prefs : prefs[i] = lang}
  IN  CASE prefs = << >> -> 0
        [] prefs # << >> /\ lang = NoLang -> Len(prefs) + 1
        [] prefs # << >> /\ lang # NoLang /\ listed = {} -> Len(prefs) + 2
        [] OTHER -> First(listed)

\* The keys of a track: rank of the language, forced, SDH, language, name.
Flag(marked) == IF marked THEN 1 ELSE 0
Keys(t) ==
  <<langRank(t.lang, pref), Flag(t.forced), Flag(t.sdh), t.lang, t.file.name>>

\* Fault: tracks of different languages are compared by rank and name only.
Before_WithinLang(a, b) ==
  LET used == IF a.lang = b.lang THEN 1 .. 5 ELSE {1, 5}
  IN  \E n \in used :
        /\ Keys(a)[n] < Keys(b)[n]
        /\ \A m \in used : m < n => Keys(a)[m] = Keys(b)[m]

\* Fault: the name is not compared.
Before_NoName(a, b) ==
  \E n \in 1 .. 4 :
    /\ Keys(a)[n] < Keys(b)[n]
    /\ \A m \in 1 .. n - 1 : Keys(a)[m] = Keys(b)[m]

\* The comparison: the first key that differs decides.
Before(a, b) ==
  \E n \in 1 .. 5 :
    /\ Keys(a)[n] < Keys(b)[n]
    /\ \A m \in 1 .. n - 1 : Keys(a)[m] = Keys(b)[m]

\* sort.SliceStable: the tracks rearranged, in the order of the comparison,
\* those it does not tell apart in the order they had.
SortStable(s) ==
  LET Earlier(i, j) == Before(s[i], s[j]) \/ (~Before(s[j], s[i]) /\ i < j)
      orders == {o \in Bijection(DOMAIN s, DOMAIN s) :
                   \A i, j \in DOMAIN s : i < j => Earlier(o[i], o[j])}
  IN  {[k \in DOMAIN s |-> s[o[k]]] : o \in orders}

-----------------------------------------------------------------------------
(* matchSubtitles *)

\* listSubtitleFiles: some of the files, each once, as os.ReadDir gives them.
Pools == {p \in UNION {[1 .. n -> Files] : n \in 0 .. MaxPool} : IsInjective(p)}

Init ==
  /\ pref \in Prefs
  /\ pool \in Pools
  /\ left = pool
  /\ out = << >>
  /\ sorted = FALSE

\* The suffixes a stem has after the video's name, shortest name first: the
\* prefix Base is tried before Base "." Ext.
Suffix(stem) ==
  IF stem = <<Base, Ext>> THEN << >> ELSE Tail(stem)

\* isBinarySubtitle reads the beginning of the file; one that cannot be read
\* passes for text.
Matches(f) ==
  /\ f.stem[1] = Base
  /\ parseSubSuffix(Suffix(f.stem)).recognised
  /\ f.text

Track(f) ==
  LET s == parseSubSuffix(Suffix(f.stem))
  IN  [file |-> f, lang |-> s.lang, forced |-> s.forced, sdh |-> s.sdh]

\* Fault: a name that continues the video's file name is not looked at.
Take_BaseOnly ==
  /\ left # << >>
  /\ out' = IF Matches(Head(left)) /\ Ext \notin Range(Head(left).stem)
            THEN Append(out, Track(Head(left))) ELSE out
  /\ left' = Tail(left)
  /\ UNCHANGED <<pref, pool, sorted>>

\* One round of the loop: a binary file and a name that is not recognised are
\* passed over.
Take ==
  /\ left # << >>
  /\ out' = IF Matches(Head(left)) THEN Append(out, Track(Head(left))) ELSE out
  /\ left' = Tail(left)
  /\ UNCHANGED <<pref, pool, sorted>>

Sort ==
  /\ left = << >>
  /\ ~sorted
  /\ out' \in SortStable(out)
  /\ sorted' = TRUE
  /\ UNCHANGED <<pref, pool, left>>

Done == sorted /\ UNCHANGED vars

Next == Take \/ Sort \/ Done

Spec == Init /\ [][Next]_vars

-----------------------------------------------------------------------------
\* The name is the video's, with or without its extension, and every token
\* after it is a language tag or a qualifier.
NamedAfterVideo(f) ==
  \E n \in {1, 2} :
    /\ n <= Len(f.stem)
    /\ SubSeq(f.stem, 1, n) = SubSeq(<<Base, Ext>>, 1, n)
    /\ \A k \in n + 1 .. Len(f.stem) : f.stem[k] \in DOMAIN langAliases \cup subQualifiers

(***************************************************************************)
(* matchSubtitles: every text file named after the video, in any of the    *)
(* forms the README lists, becomes a track, and exactly one; no binary     *)
(* file becomes one, and none of another pool.                             *)
(***************************************************************************)
EveryNamedFileIsATrack ==
  sorted =>
    /\ \A f \in Range(pool) : f.text /\ NamedAfterVideo(f) =>
         Cardinality({k \in DOMAIN out : out[k].file = f}) = 1
    /\ \A k \in DOMAIN out : out[k].file \in Range(pool) /\ out[k].file.text

(***************************************************************************)
(* sortSubtitles: the comparison is a strict weak order on the tracks at   *)
(* hand.  A sort given anything less returns an order that depends on how  *)
(* the files happened to be read.                                          *)
(***************************************************************************)
ComparisonIsConsistent ==
  \A i, j, k \in DOMAIN out :
    LET a == out[i]
        b == out[j]
        c == out[k]
    IN  /\ ~Before(a, a)
        /\ Before(a, b) /\ Before(b, c) => Before(a, c)
        /\ ~Before(a, b) /\ ~Before(b, a) /\ Before(b, c) => Before(a, c)

(***************************************************************************)
(* sortSubtitles: the order of the tracks does not depend on the order in  *)
(* which the folder was read, as long as their names differ.               *)
(***************************************************************************)
OrderIsThatOfTheNames ==
  sorted => \A i, j \in DOMAIN out :
    i < j /\ out[i].file.name # out[j].file.name => Before(out[i], out[j])

(***************************************************************************)
(* The comments on subQualifiers and matchSubtitles: an unknown token      *)
(* "makes the whole suffix unrecognised, which is what stops unrelated     *)
(* files from being attached to a video".  parseSubSuffix passes over it.  *)
(***************************************************************************)
OnlyNamedFilesAreTracks == \A k \in DOMAIN out : NamedAfterVideo(out[k].file)
=============================================================================
