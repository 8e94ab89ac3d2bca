------------------------------- MODULE PageFetch -------------------------------
(***************************************************************************)
(* How the text of a posting is read from the web: the tiers of jd_fetch,  *)
(* tried in their order, as a function of what the network answers.  A     *)
(* text is told apart by what the checks make of it, and by whether it is  *)
(* the posting's own: "prose" is long and clean and something else, such   *)
(* as a list of openings, which no check can tell from a posting.          *)
(*                                                                         *)
(* Every operator is a pure function; JobCatalogue stores their results.   *)
(***************************************************************************)
EXTENDS Naturals, Sequences, FiniteSetsExt

Texts == {"posting", "prose", "shell", "short", "challenge", "closed"}

\* The answers that one posting's URL can meet, of the servers it involves.
Answers ==
  [site     : {"ok", "forbidden", "gone", "broken"},  \* its own, by HTTP status
   text     : Texts,             \* scraped from the page
   postings : 0 .. 2,            \* usable JobPosting records of schema.org
   board    : {"none", "listed", "full"},  \* entry of the board the URL names; "full" has a usable text
   embedded : BOOLEAN,           \* the URL carries a gh_jid
   embed    : BOOLEAN,           \* and the board behind it has the posting
   rendered : Texts \ {"closed"},  \* by the Jina reader; "short" if it fails
   named    : SUBSET {"title", "company"}]  \* by the tier that has the text

-----------------------------------------------------------------------------
\* The checks every text has to pass, in their order.
Validate(text) ==
  CASE text = "challenge"         -> "shell"
    [] text \in {"short", "closed"} -> "too_short"
    [] text = "shell"             -> "shell"
    [] OTHER                      -> "success"

Usable(text) == Validate(text) = "success"

\* Through which channel: a record of the posting, the page, the Jina reader.
Found(text, channel) == [status |-> "success", text |-> text, channel |-> channel]
Failed(status) == [status |-> status, text |-> "none", channel |-> "none"]

ByBoard(a)   == [when |-> a.board = "full", gives |-> Found("posting", "record")]
ByEmbed(a)   == [when |-> a.embedded /\ a.embed, gives |-> Found("posting", "record")]
ByJsonLd(a)  == [when |-> a.postings = 1, gives |-> Found("posting", "record")]
Rendered(a)  == [when |-> Usable(a.rendered), gives |-> Found(a.rendered, "reader")]
Scraped(a)   == [when |-> Usable(a.text), gives |-> Found(a.text, "page")]
Provided(guard, tier) == [tier EXCEPT !.when = guard /\ @]
Otherwise(status) == [when |-> TRUE, gives |-> Failed(status)]
Gone(guard) == [when |-> guard, gives |-> Failed("doa")]

\* A page that was to show a board's posting, and did not, is not scraped; but a
\* site that answers 403 has had its page read by the Jina reader before that.
EmbedLostMutant(a) == [when |-> FALSE, gives |-> Failed("shell")]
EmbedLost(a) == [when |-> a.embedded, gives |-> Failed("shell")]

\* fetch_jd_from_url: the first tier that applies decides.
Tiers(a) ==
  << ByBoard(a),
     Provided(a.site = "forbidden", Rendered(a)),
     Gone(a.site = "gone"),
     [when |-> a.site # "ok", gives |-> Failed("failed")],
     Gone(a.text = "closed"),
     ByEmbed(a),
     ByJsonLd(a),
     EmbedLost(a),
     Scraped(a),
     Provided(Validate(a.text) = "too_short", Rendered(a)),
     Otherwise(Validate(a.text)) >>

FetchJdFromUrl(a) ==
  LET tiers == Tiers(a) IN tiers[Min({i \in DOMAIN tiers : tiers[i].when})].gives

\* resolve_jd: what the agent's wrapper saved for the URL, if it is usable.
ResolveJd(a, saved) == IF Usable(saved) THEN Found(saved, "page") ELSE FetchJdFromUrl(a)

-----------------------------------------------------------------------------
(* What an import by URL makes of the answers *)

\* The posting's own text, prose of whatever page was read, or none.
Whose(fetched) == CASE fetched.text = "posting" -> "own" [] OTHER -> fetched.text

\* The board's listing names a posting even when it has no usable text.
NamedByTier(a) == "title" \in a.named /\ (a.board # "none" \/ FetchJdFromUrl(a).channel = "record")

\* With a text and no title, a "Title:" line or the language model may name the
\* posting or not; with neither text nor title the import is refused.  Whether
\* the text is the reader's because the site answered 403 is kept for a property.
Endings(a) ==
  LET fetched == FetchJdFromUrl(a)
      job     == [end |-> "job", jd |-> Whose(fetched),
                  walled |-> a.site = "forbidden" /\ fetched.channel = "reader"]
      refused == [end |-> "refused", jd |-> "none", walled |-> FALSE]
  IN CASE fetched.status = "doa"     -> {[end |-> "dead", jd |-> "none", walled |-> FALSE]}
       [] NamedByTier(a)             -> {job}
       [] fetched.status = "success" -> {job, refused}
       [] OTHER                      -> {refused}

\* What a search makes of a candidate's URL: stored with or without a text.
Candidacies(a) ==
  {IF f.status = "doa" THEN [end |-> "dead", jd |-> "none"]
   ELSE [end |-> "job", jd |-> Whose(f)] :
     f \in {ResolveJd(a, saved) : saved \in Texts}}
=============================================================================
