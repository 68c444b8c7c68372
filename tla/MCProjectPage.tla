---------------------------- MODULE MCProjectPage ----------------------------
(***************************************************************************)
(* Postings for the page of the projects.                                  *)
(***************************************************************************)
EXTENDS ProjectPage

(* Postings: data, embedded data, agreeing and lonely names. *)

Line(words) == [kind |-> "text", words |-> words, company |-> FALSE, short |-> TRUE,
                hint |-> FALSE, day |-> NoDate]
Heading(kind) == [Line({}) EXCEPT !.kind = kind, !.hint = (kind = "deadline")]
Company(words, short) == [Line(words) EXCEPT !.company = TRUE, !.short = short]
Day(d) == [Line({"until"}) EXCEPT !.day = d]

Duties == <<Heading("duties"), Line({"write", "java"}), Line({"serve", "users"})>>
Sections == Duties \o <<Heading("deadline"), Day(1), Day(2), Heading("overview"), Line({"we"})>>

\* A broken block, a node of another kind and the posting.
WithData ==
  [Nothing EXCEPT
     !.blocks = <<[broken |-> TRUE, nodes |-> <<>>],
                  [broken |-> FALSE,
                   nodes |-> <<[NoData EXCEPT !.type = "Organization", !.company = {"portal"}],
                               [type |-> "JobPosting", title |-> {"acme", "backend"},
                                company |-> {"acme"}, description |-> {"write", "java", "users"},
                                long |-> TRUE, until |-> 3]>>]>>,
     !.title = <<{"portal"}>>, !.lines = Sections]

\* The posting of a listing site, with its text as embedded data.
Embedded ==
  [Nothing EXCEPT
     !.embedded = [present |-> TRUE, company |-> {"acme"}, title |-> {"java", "backend", "hire"}],
     !.title = <<{"portal"}>>, !.listed = TRUE,
     !.lines = <<Line({"java", "backend", "team"})>> \o Sections]

\* The title and the site agree; a longer name near the end is somebody else's.
Agreed ==
  [Nothing EXCEPT
     !.title = <<{"backend", "dev"}, {"acme", "hire"}>>, !.site = {"acme"},
     !.lines = <<Line({"backend", "dev"}), Company({"acme", "beta"}, FALSE),
                 Company({"beta", "korea", "seoul", "inc"}, TRUE)>> \o Sections]

\* The company's host, and a line with the name as a part of a word.
Hosted ==
  [Nothing EXCEPT !.host = {"idis"}, !.scripted = TRUE, !.title = <<{"frontend"}>>,
     !.lines = <<Company({"idisglobal", "inc"}, TRUE)>> \o Duties]

\* Only a title; nothing but a listing site's title.
Lonely == [Nothing EXCEPT !.title = <<{"acme"}, {"backend"}>>, !.lines = Duties]
Listed == [Nothing EXCEPT !.title = <<{"portal"}, {"backend"}>>, !.listed = TRUE, !.lines = Duties]

\* No name at all.
Bare == [Nothing EXCEPT !.lines = Duties]

MCPages == {WithData, Embedded, Agreed, Hosted, Lonely, Listed, Bare}
MCOpened == {Bare}
MCStopWords == {"hire", "inc"}
MCRoleWords == {"backend", "frontend", "java", "dev"}
MCParts == {<<"idis", "idisglobal">>}
MCOwnCompany == {"own"}
MCOwnRole == {"lead"}
MCLabel == {"jobs"}
=============================================================================
