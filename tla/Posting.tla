------------------------------- MODULE Posting -------------------------------
(***************************************************************************)
(* What the analysis of a job posting takes from a page, and how far each  *)
(* field can be trusted: "factual" (given by the user or as data, or two   *)
(* sources agree), "contextual" (the page's title says it too), "role"     *)
(* (a guess).  Pure operators, no state.                                   *)
(*                                                                         *)
(* A text is the set of its words, the absent text is the empty set.  A    *)
(* line says how the patterns of the code classify it; a page is a record  *)
(* of what is found in its HTML.                                           *)
(***************************************************************************)
EXTENDS Naturals, SequencesExt

CONSTANTS
  StopWords,     \* words that say nothing of a company (DEFAULT_STOP_TOKENS)
  RoleWords,     \* words the pattern of role names matches
  Parts,         \* pairs of words, the first a part of the second
  TopLines,      \* bound: lines at the top searched for a role (6 in the code)
  FooterLines,   \* bound: lines at the end searched for a company (30)
  SectionLines,  \* bound: lines of a section (14)
  EnoughWords    \* words in common that make the duties sure (5)

ASSUME LinesAssumption ==
  TopLines \in Nat /\ FooterLines \in Nat /\ SectionLines \in Nat /\ EnoughWords \in Nat

NoText == {}
NoDate == 0
Field(value, tier) == [value |-> value, tier |-> tier]
NoField == Field(NoText, "none")

First(seq, Test(_)) == LET i == SelectInSeq(seq, Test) IN IF i = 0 THEN NoText ELSE seq[i]

-----------------------------------------------------------------------------
(***************************************************************************)
(* Words in common (crossValidate.ts).                                     *)
(***************************************************************************)
Tokens(text) == text \ StopWords
Found(word, text) == \E v \in text : v = word \/ <<word, v>> \in Parts
Overlap(needle, text, count) ==
  Cardinality({w \in Tokens(needle) : Found(w, text)}) >= count

Agree(a, b) == Overlap(a, b, 1) \/ Overlap(b, a, 1)

\* Candidates are a sequence of [value, source]: more words first, then the
\* earlier candidate.
Better(c, i, j) ==
  LET n(k) == Cardinality(Tokens(c[k].value))
  IN  n(i) > n(j) \/ (n(i) = n(j) /\ i < j)
BestOf(c, S) == CHOOSE i \in S : \A j \in S \ {i} : Better(c, i, j)

\* The best candidate of every source that agrees with the anchor.
Agreeing(c, anchor) ==
  LET all == {i \in DOMAIN c : Agree(c[anchor].value, c[i].value)}
  IN  {BestOf(c, {i \in all : c[i].source = s}) : s \in {c[i].source : i \in all}}

\* The representative is looked for among all candidates.
CrossValidated_AnyBest(c) ==
  IF \E a \in DOMAIN c : Cardinality(Agreeing(c, a)) >= 2
  THEN c[BestOf(c, DOMAIN c)].value ELSE NoText

\* The larger group, of two the one whose best candidate is better.
Ahead(c, G, H) ==
  \/ Cardinality(G) > Cardinality(H)
  \/ /\ Cardinality(G) = Cardinality(H)
     /\ \/ BestOf(c, G) = BestOf(c, H)
        \/ Better(c, BestOf(c, G), BestOf(c, H))

\* crossValidateCandidates: the largest group, of those the one whose best
\* candidate is better; a value when two sources agree.
CrossValidated(c) ==
  LET groups == {G \in {Agreeing(c, a) : a \in DOMAIN c} : Cardinality(G) >= 2}
  IN  IF groups = {} THEN NoText
      ELSE c[BestOf(c, CHOOSE G \in groups : \A H \in groups : Ahead(c, G, H))].value

-----------------------------------------------------------------------------
(***************************************************************************)
(* Data in the page (jsonLd.ts, extractEmbeddedJobPostingSource).          *)
(***************************************************************************)
NoData == [type |-> "none", title |-> NoText, company |-> NoText,
           description |-> NoText, long |-> FALSE, until |-> NoDate]

\* The nodes in document order, of the blocks that parse; the first that is a job
\* posting counts.
Nodes(page) ==
  FlattenSeq([i \in DOMAIN page.blocks |->
                IF page.blocks[i].broken THEN <<>> ELSE page.blocks[i].nodes])
IsPosting(node) == node.type = "JobPosting"
JsonLd(page) ==
  LET nodes == Nodes(page)
      i == SelectInSeq(nodes, IsPosting)
  IN  IF i = 0 THEN NoData ELSE nodes[i]

\* A title without the company's name is the role's name.
RoleOfTitle(data) == data.title \ data.company

NoEmbedded == [present |-> FALSE, company |-> NoText, title |-> NoText]

\* The title of a site that lists other companies' postings is no source; the
\* title in the embedded data is the posting's own.
OwnTitle(page) == IF page.listed THEN <<>> ELSE page.title
PageTitle(page) ==
  IF page.embedded.present /\ page.embedded.title # NoText THEN <<page.embedded.title>>
  ELSE OwnTitle(page)
TitleWords(title) == UNION Range(title)

-----------------------------------------------------------------------------
(***************************************************************************)
(* Lines: [kind, words, company, short, hint, day].  The kind "text" is no *)
(* heading; a hint names a period or a deadline.                           *)
(***************************************************************************)
Top(lines) ==
  LET stop == SelectInSeq(lines, LAMBDA l : l.kind # "text")
      n == IF stop = 0 THEN Len(lines) ELSE stop - 1
  IN  SubSeq(lines, 1, IF n < TopLines THEN n ELSE TopLines)

RoleLine(lines) ==
  LET top == Top(lines)
      i == SelectInSeq(top, LAMBDA l : l.words \cap RoleWords # {})
  IN  IF i = 0 THEN NoText ELSE top[i].words

\* The last company line near the end, and the first of the posting.
FooterCompany(lines) ==
  LET near == IF Len(lines) > FooterLines
              THEN SubSeq(lines, Len(lines) - FooterLines + 1, Len(lines)) ELSE lines
      i == SelectLastInSeq(near, LAMBDA l : l.company /\ l.short)
  IN  IF i = 0 THEN NoText ELSE near[i].words
BodyCompany(lines) ==
  LET i == SelectInSeq(lines, LAMBDA l : l.company)
  IN  IF i # 0 /\ lines[i].short THEN lines[i].words ELSE NoText

\* The lines under a heading, up to the next heading.
Content(lines, i) ==
  LET stop == SelectInSubSeq(lines, i + 1, Len(lines), LAMBDA l : l.kind # "text")
      last == IF stop = 0 THEN Len(lines) ELSE stop - 1
  IN  SubSeq(lines, i + 1, IF last > i + SectionLines THEN i + SectionLines ELSE last)

\* The first section of a kind that has lines.
Section(lines, kind) ==
  LET at == {i \in DOMAIN lines : lines[i].kind = kind /\ Content(lines, i) # <<>>}
  IN  IF at = {} THEN <<>> ELSE Content(lines, Min(at))
Words(section) == UNION {l.words : l \in Range(section)}

\* The last date of a text; of the texts that may hold it the first with a date.
LastDay(section) ==
  LET i == SelectLastInSeq(section, LAMBDA l : l.day # NoDate)
  IN  IF i = 0 THEN NoDate ELSE section[i].day
Deadline(lines) ==
  LET hints == SetToSortSeq({i \in DOMAIN lines : lines[i].hint}, <)
      near == [k \in DOMAIN hints |->
                 SubSeq(lines, hints[k], IF hints[k] < Len(lines) THEN hints[k] + 1 ELSE hints[k])]
      texts == <<Section(lines, "deadline")>> \o near
      i == SelectInSeq(texts, LAMBDA t : LastDay(t) # NoDate)
  IN  IF i = 0 THEN NoDate ELSE LastDay(texts[i])

-----------------------------------------------------------------------------
(***************************************************************************)
(* The fields.                                                             *)
(***************************************************************************)
InferRole(page, lines, seed, title) ==
  LET data == JsonLd(page)
      line == RoleLine(lines)
      part == First(title, LAMBDA t : t \cap RoleWords # {})
  IN  IF seed # NoText THEN Field(seed, "factual")
      ELSE IF RoleOfTitle(data) # NoText THEN Field(RoleOfTitle(data), "factual")
      ELSE IF line # NoText
      THEN Field(line,
             IF page.embedded.present /\ Overlap(line, page.embedded.title, 2) THEN "factual"
             ELSE IF line \subseteq TitleWords(title) THEN "contextual" ELSE "role")
      ELSE IF part # NoText THEN Field(part, "role") ELSE NoField

\* extractCompanyNameFromTitleStrip: the first part of the title that is not the role.
TitleCompany(title, role) == First(title, LAMBDA t : t # NoText /\ t # role)

Candidate(source, value) ==
  IF value = NoText THEN << >> ELSE <<[source |-> source, value |-> value]>>
CompanyCandidates(page, lines, title, role) ==
  Candidate("hostname", page.host)
    \o Candidate("titleStrip", TitleCompany(title, role))
    \o Candidate("ogSiteName", page.site)
    \o Candidate("footer", FooterCompany(lines))
    \o Candidate("body", BodyCompany(lines))

InferCompany(page, lines, seed, title, role) ==
  LET data == JsonLd(page)
      agreed == CrossValidated(CompanyCandidates(page, lines, title, role))
      strip == TitleCompany(title, role)
      body == BodyCompany(lines)
  IN  IF seed # NoText THEN Field(seed, "factual")
      ELSE IF data.company # NoText THEN Field(data.company, "factual")
      ELSE IF agreed # NoText THEN Field(agreed, "factual")
      ELSE IF strip # NoText THEN Field(strip, "role")
      ELSE IF body # NoText
      THEN Field(body, IF body \subseteq TitleWords(title) THEN "contextual" ELSE "role")
      ELSE NoField

(***************************************************************************)
(* fetchAndExtractJobPosting, for a page and for a text the user has given *)
(* or an earlier analysis has left, which is only its lines.               *)
(***************************************************************************)
Extraction(page, seeds, title) ==
  LET lines == page.lines
      data  == JsonLd(page)
      role  == InferRole(page, lines, seeds.role, title)
      duties == Words(Section(lines, "duties"))
  IN  [role     |-> role,
       company  |-> InferCompany(page, lines, seeds.company, title, role.value),
       overview |-> IF data.long THEN Field(data.description, "factual")
                    ELSE Field(Words(Section(lines, "overview")), "none"),
       deadline |-> IF data.until # NoDate THEN Field(data.until, "factual")
                    ELSE Field(Deadline(lines), "none"),
       duties   |-> Field(duties, IF data.long /\ Overlap(duties, data.description, EnoughWords)
                                  THEN "factual" ELSE "none"),
       text     |-> lines]

FromUrl(page, seeds) ==
  Extraction(page,
    [seeds EXCEPT !.company = IF page.embedded.company # NoText THEN page.embedded.company ELSE @],
    PageTitle(page))

Nothing == [blocks |-> <<>>, embedded |-> NoEmbedded, title |-> <<>>, listed |-> FALSE,
            lines |-> <<>>, host |-> NoText, site |-> NoText, scripted |-> FALSE]

\* What a fetch brings.  A page that scripts build is empty without a browser, which
\* is asked first for the hosts known for it; when it fails or is turned off, the
\* page is fetched as it is.
Static(page) ==
  IF page.scripted
  THEN [Nothing EXCEPT !.title = page.title, !.listed = page.listed, !.host = page.host]
  ELSE page
Browser(page) == IF page.scripted THEN {page} ELSE {}
Fetched(page) == Browser(page) \cup {Static(page)}
FromText(text, seeds) == Extraction([Nothing EXCEPT !.lines = text], seeds, <<>>)

\* evaluatePostingConfidence: a name is missing, or neither is sure.
LowConfidence(result) ==
  \/ result.company.value = NoText \/ result.role.value = NoText
  \/ result.company.tier # "factual" /\ result.role.tier # "factual"
=============================================================================
