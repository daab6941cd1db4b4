--------------------------------- MODULE News ---------------------------------
(* Articles of the news (routers/news.py, queries/news.py), created, edited  *)
(* and deleted by requests whose statements commit one by one: the slug is   *)
(* probed before it is inserted, and the row is read before it is updated.   *)
(* An article is known by the request that creates it.                       *)
EXTENDS Integers, Sequences

CONSTANTS
  Posts,           \* requests
  TitleSlugs       \* _slugify of the titles: sequences of words

VARIABLES
  articles,        \* the rows of news
  slug,            \* their slugs
  published,       \* those with is_published
  dated,           \* those with a published_at
  post,            \* the stage of each request
  base_slug,
  candidate,       \* create_news's local slug
  counter,
  subject,         \* the article a request is to update
  ask,             \* what it wants of is_published
  was_published,   \* current["is_published"] as it read it
  there_before     \* the articles there were when it began

newsTable == <<articles, slug, published, dated>>
creation == <<base_slug, candidate, counter, there_before>>
updating == <<subject, was_published>>
newsVars == <<newsTable, post, creation, updating, ask>>

Asks == {"publish", "unpublish", "leave"}
PostStages == {"new", "probing", "inserting", "updating", "refused", "ended"}

NewsTypeOK ==
  /\ articles \subseteq Posts
  /\ DOMAIN slug = Posts
  /\ published \subseteq articles /\ dated \subseteq articles
  /\ post \in [Posts -> PostStages]
  /\ counter \in [Posts -> Nat \ {0}]
  /\ subject \in [Posts -> Posts]
  /\ ask \in [Posts -> Asks]
  /\ was_published \in [Posts -> BOOLEAN]
  /\ there_before \in [Posts -> SUBSET Posts]

NewsInit ==
  /\ articles = {} /\ published = {} /\ dated = {}
  /\ slug = [r \in Posts |-> << >>]
  /\ post = [r \in Posts |-> "new"]
  /\ base_slug = [r \in Posts |-> << >>]
  /\ candidate = [r \in Posts |-> << >>]
  /\ counter = [r \in Posts |-> 1]
  /\ subject = [r \in Posts |-> r]
  /\ ask = [r \in Posts |-> "leave"]
  /\ was_published = [r \in Posts |-> FALSE]
  /\ there_before = [r \in Posts |-> {}]

PostGoes(r, stage) == post' = [post EXCEPT ![r] = stage]
Asking(r, a) == ask' = [ask EXCEPT ![r] = a]
SlugTaken(s) == \E a \in articles : slug[a] = s

-------------------------------------------------------------------------------
(* create_article *)

BeginCreate(r, base, a) ==
  /\ post[r] = "new" /\ a # "leave"
  /\ base_slug' = [base_slug EXCEPT ![r] = base]
  /\ candidate' = [candidate EXCEPT ![r] = base]
  /\ there_before' = [there_before EXCEPT ![r] = articles]
  /\ Asking(r, a)
  /\ PostGoes(r, "probing")
  /\ UNCHANGED <<newsTable, counter, updating>>

\* Mutant of ProbeAgain: the loop is an if.
ProbeOnce(r) == PostGoes(r, "inserting")
ProbeAgain(r) == PostGoes(r, "probing")

\* while SELECT 1 FROM news WHERE slug = $1: the next candidate.
Probe(r) ==
  /\ post[r] = "probing"
  /\ \/ /\ SlugTaken(candidate[r])
        /\ candidate' = [candidate EXCEPT ![r] = Append(base_slug[r], counter[r])]
        /\ counter' = [counter EXCEPT ![r] = @ + 1]
        /\ ProbeAgain(r)
     \/ /\ ~SlugTaken(candidate[r])
        /\ PostGoes(r, "inserting")
        /\ UNCHANGED <<candidate, counter>>
  /\ UNCHANGED <<newsTable, base_slug, there_before, updating, ask>>

InsertArticle(r) ==
  /\ post[r] = "inserting" /\ ~SlugTaken(candidate[r])
  /\ articles' = articles \cup {r}
  /\ slug' = [slug EXCEPT ![r] = candidate[r]]
  /\ published' = IF ask[r] = "publish" THEN published \cup {r} ELSE published
  /\ dated' = IF ask[r] = "publish" THEN dated \cup {r} ELSE dated
  /\ PostGoes(r, "ended")
  /\ UNCHANGED <<creation, updating, ask>>

\* The unique constraint on the slug.
RefuseSlug(r) ==
  /\ post[r] = "inserting" /\ SlugTaken(candidate[r])
  /\ PostGoes(r, "refused")
  /\ UNCHANGED <<newsTable, creation, updating, ask>>

-------------------------------------------------------------------------------
(* update_article, delete_article *)

\* A new title leaves the slug alone.
ReadCurrent(r, n, a) ==
  /\ post[r] = "new"
  /\ subject' = [subject EXCEPT ![r] = n]
  /\ was_published' = [was_published EXCEPT ![r] = n \in published]
  /\ Asking(r, a)
  /\ PostGoes(r, IF n \in articles THEN "updating" ELSE "ended")
  /\ UNCHANGED <<newsTable, creation>>

\* Mutant of DatedAfter: the date goes with the publication.
DatedWhilePublished(r) ==
  CASE ask[r] = "publish" /\ ~was_published[r] -> dated \cup {subject[r]}
    [] ask[r] = "unpublish" -> dated \ {subject[r]}
    [] OTHER -> dated

\* published_at is set on the way from unpublished to published only.
DatedAfter(r) ==
  IF ask[r] = "publish" /\ ~was_published[r] THEN dated \cup {subject[r]} ELSE dated

PublishedAfter(r) ==
  CASE ask[r] = "publish" -> published \cup {subject[r]}
    [] ask[r] = "unpublish" -> published \ {subject[r]}
    [] OTHER -> published

\* UPDATE news ... WHERE id = $1, of no row if the article is gone.
UpdateArticle(r) ==
  /\ post[r] = "updating"
  /\ published' = PublishedAfter(r) \cap articles
  /\ dated' = DatedAfter(r) \cap articles
  /\ PostGoes(r, "ended")
  /\ UNCHANGED <<articles, slug, creation, updating, ask>>

delete_news(n) ==
  /\ n \in articles
  /\ articles' = articles \ {n}
  /\ published' = published \ {n}
  /\ dated' = dated \ {n}
  /\ UNCHANGED <<slug, post, creation, updating, ask>>

NewsNext ==
  \E r \in Posts :
    \/ \E base \in TitleSlugs, a \in Asks : BeginCreate(r, base, a)
    \/ Probe(r) \/ InsertArticle(r) \/ RefuseSlug(r)
    \/ \E n \in Posts, a \in Asks : ReadCurrent(r, n, a)
    \/ UpdateArticle(r)
    \/ delete_news(r)

NewsSpec == NewsInit /\ [][NewsNext]_newsVars

-------------------------------------------------------------------------------
\* A published article has the date of a publication, by which the list is
\* ordered, though an update decides about the date on what it read before
\* another published the article or took it back.
PublishedIsDated == published \subseteq dated

\* A creation fails on its slug only because of an article stored after it
\* began: against those before, whatever their titles, the loop finds a slug
\* that is free.
DuplicateOnlyByRace ==
  [][\A r \in Posts :
       post[r] # "refused" /\ post'[r] = "refused" =>
         \E n \in articles \ there_before[r] : slug[n] = candidate[r]]_newsVars
===============================================================================
