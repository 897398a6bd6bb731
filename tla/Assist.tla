------------------------------- MODULE Assist -------------------------------
(***************************************************************************)
(* Assist, the guided-question component (apps/api/src/assist and          *)
(* packages/assist): knowledge articles, a turn that gathers knowledge and *)
(* tool results in transactions of their own and persists in a last one,   *)
(* the grounded answer and its escalation to a person.                     *)
(* One turn is in progress at a time, while articles change: two turns     *)
(* read no row that the other writes, so their steps commute.              *)
(* A text is the set of its tokens, stop words aside.  The provider only   *)
(* phrases: the answer's facts are the template provider's in any case.    *)
(***************************************************************************)
EXTENDS Rbac, Naturals, Sequences, FiniteSets, FiniteSetsExt

CONSTANTS
  Askers,       \* the users of the checked instance
  RolesOf,      \* their roles
  Linked,       \* those whose account is linked to an employee
  Questions,    \* what they may ask: sets of tokens
  Texts,        \* what an article may say: [title, tags, body], sets of tokens
  MaxArticles,  \* bound on the articles
  MaxTurns      \* bound on the turns ever persisted

ASSUME AssistAssumption ==
  /\ RolesOf \in [Askers -> SUBSET RoleKeys] /\ Linked \subseteq Askers
  /\ \A query \in Questions : IsFiniteSet(query)
  /\ MaxArticles \in Nat /\ MaxTurns \in Nat

VARIABLES
  knowledge,     \* knowledge_article rows by id
  asking,        \* the turn in progress
  conversations, \* assist_conversation: the owners, in order of creation
  turns,         \* assist_message: the answers, in order of creation
  escalations    \* assist_escalation rows, in order of creation

assistVars == <<knowledge, asking, conversations, turns, escalations>>

ArticleIds == 1..MaxArticles
NoText == [title |-> {}, tags |-> {}, body |-> {}]
NoArticle == [active |-> FALSE, text |-> NoText]
Silent == [stage |-> "silent"]

-----------------------------------------------------------------------------
(* Tools: routed by keyword, checked against the caller's role.            *)

ASSIST_TOOLS ==
  [leave_balance |-> {"leave", "balance", "holiday", "holidays", "vacation", "pto", "days",
                      "annual"},
   leave_requests |-> {"request", "requests", "application", "applied", "pending", "approved"},
   claims_status |-> {"claim", "claims", "expense", "expenses", "reimburse", "reimbursement",
                      "receipt"},
   latest_payslip |-> {"payslip", "payslips", "stub", "slip", "net", "earnings"},
   next_payday |-> {"payday", "paid", "payment", "salary", "wage", "wages", "pay", "payroll"},
   my_profile |-> {"profile", "department", "manager", "designation", "details"}]

routeTools(query) == {t \in DOMAIN ASSIST_TOOLS : ASSIST_TOOLS[t] \cap query # {}}

\* The other tools read the caller's own record and need no permission.
TOOL_PERMISSION(tool) ==
  CASE tool \in {"leave_balance", "leave_requests"} -> {"org.leave.read"}
    [] tool = "claims_status" -> {"org.claim.read"}
    [] OTHER -> {}

\* A tool that runs finds the caller's employee, or none, or fails in some other way.
Outcomes(user, tool) ==
  IF ~(TOOL_PERMISSION(tool) \subseteq collectPermissions(RolesOf[user])) THEN {"forbidden"}
  ELSE IF user \in Linked THEN {"ok", "not_found"} ELSE {"no_profile", "not_found"}

-----------------------------------------------------------------------------
(* Retrieval: the share of the query's tokens found, a title hit counting  *)
(* twice and a tag hit one and a half times, over twice the tokens.        *)

Weight(text, token) ==
  CASE token \in text.title -> 4 [] token \in text.tags -> 3 [] token \in text.body -> 2
    [] OTHER -> 0

\* In quarters of a token; the query has at least one.
scoreArticle(text, query) ==
  LET matched == MapThenSumSet(LAMBDA token : Weight(text, token), query)
      most == 4 * Cardinality(query)
  IN IF matched < most THEN matched ELSE most

\* The best match with a positive score, the lowest id among equals; 0 without a match.
TopArticle(articles, query) ==
  LET Score(a) == scoreArticle(articles[a].text, query)
      found == {a \in DOMAIN articles : Score(a) > 0}
      best == {a \in found : \A b \in found : Score(b) <= Score(a)}
  IN IF found = {} THEN 0 ELSE CHOOSE a \in best : \A b \in best : a <= b

-----------------------------------------------------------------------------
(* The template provider and the escalation policy.  Confidence is in      *)
(* hundredths, rounded down.                                               *)

CONFIDENCE == [tool |-> 92, toolFailure |-> 30, unknown |-> 10]
CONFIDENCE_ESCALATION_THRESHOLD == 35

Reply(confidence, citations, usedTools) ==
  [confidence |-> confidence, citations |-> citations, usedTools |-> usedTools]

\* Tools that answered, else the best article from a quarter upwards, else a failure.
compose(query, articles, results) ==
  LET answered == {t \in DOMAIN results : results[t] = "ok"}
      top == TopArticle(articles, query)
      score == scoreArticle(articles[top].text, query)
      size == 4 * Cardinality(query)
      scaled == 40 + ((50 * score) \div size)
  IN IF answered # {} THEN Reply(CONFIDENCE.tool, {}, answered)
     ELSE IF top # 0 /\ 4 * score >= size
     THEN Reply(IF scaled < 85 THEN scaled ELSE 85, {top}, {})
     ELSE IF results # <<>> THEN Reply(CONFIDENCE.toolFailure, {}, {})
     ELSE Reply(CONFIDENCE.unknown, {}, {})

SENSITIVE_KEYWORDS ==
  {"terminate", "termination", "fired", "fire", "resign", "resignation", "quit", "redundancy",
   "redundant", "layoff", "grievance", "harassment", "harassed", "discrimination",
   "discriminated", "discriminate", "lawsuit", "lawyer", "garnish", "garnishment", "ssn",
   "passport"}

isSensitive(query) == query \cap SENSITIVE_KEYWORDS # {}

\* Faulty variant: confidence is looked at first.
EscalateUnsureOnly(query, confidence) ==
  CASE confidence >= CONFIDENCE_ESCALATION_THRESHOLD -> "none"
    [] isSensitive(query) -> "sensitive_topic"
    [] OTHER -> "low_confidence"

\* The reason to escalate, or "none"; a sensitive topic escalates however sure the answer is.
decideEscalation(query, confidence) ==
  CASE isSensitive(query) -> "sensitive_topic"
    [] confidence < CONFIDENCE_ESCALATION_THRESHOLD -> "low_confidence"
    [] OTHER -> "none"

-----------------------------------------------------------------------------
(* A turn.                                                                 *)

AssistInit ==
  /\ knowledge = [a \in ArticleIds |-> NoArticle]
  /\ asking = Silent
  /\ conversations = <<>> /\ turns = <<>> /\ escalations = <<>>

\* 0 asks for a new conversation.  loadKnowledge reads the active articles.
Ask(u, query, conversation) ==
  /\ "assist.use" \in collectPermissions(RolesOf[u])
  /\ asking = Silent
  /\ Len(turns) < MaxTurns
  /\ LET active == {a \in ArticleIds : knowledge[a].active}
     IN asking' = [stage |-> "asked", user |-> u, query |-> query,
                   conversation |-> conversation,
                   articles |-> [a \in active |-> knowledge[a]]]
  /\ UNCHANGED <<knowledge, conversations, turns, escalations>>

\* runTools, in transactions of their own; then the answer and its verdict.
RunTools ==
  /\ asking.stage = "asked"
  /\ LET tools == routeTools(asking.query)
     IN \E results \in [tools -> {"ok", "forbidden", "no_profile", "not_found"}] :
          LET answer == compose(asking.query, asking.articles, results)
          IN /\ \A t \in tools : results[t] \in Outcomes(asking.user, t)
             /\ asking' =
                  [stage |-> "answered", user |-> asking.user,
                   conversation |-> asking.conversation,
                   sensitive |-> isSensitive(asking.query), offered |-> DOMAIN asking.articles,
                   citations |-> answer.citations, usedTools |-> answer.usedTools,
                   reason |-> decideEscalation(asking.query, answer.confidence)]
  /\ UNCHANGED <<knowledge, conversations, turns, escalations>>

\* resolveConversation: the caller's own, or a new one.
Resolved(given) ==
  IF given = 0 THEN Append(conversations, asking.user) ELSE conversations

\* Faulty variant: only answers of low confidence get a ticket.
WriteTurnUnsure(conversation) ==
  /\ turns' = Append(turns, [asking EXCEPT !.conversation = conversation])
  /\ escalations' =
       IF asking.reason # "low_confidence" THEN escalations
       ELSE Append(escalations, [conversation |-> conversation, user |-> asking.user,
                                 reason |-> asking.reason])

\* The rows of a turn: the answer, and the ticket if it is escalated.
WriteTurn(conversation) ==
  LET owned == [asking EXCEPT !.conversation = conversation]
  IN /\ turns' = Append(turns, owned)
     /\ escalations' =
          IF asking.reason = "none" THEN escalations
          ELSE Append(escalations, [conversation |-> conversation, user |-> asking.user,
                                    reason |-> asking.reason])

\* persist: both messages, the escalation and the audit event, in one transaction.
Persist ==
  /\ asking.stage = "answered"
  /\ conversations' = Resolved(asking.conversation)
  /\ LET conversation == IF asking.conversation = 0 THEN Len(conversations')
                         ELSE asking.conversation
     IN /\ conversations'[conversation] = asking.user
        /\ WriteTurn(conversation)
  /\ asking' = Silent
  /\ UNCHANGED knowledge

\* The turn fails, on a conversation that is not the caller's among other things.
Fail ==
  /\ asking # Silent
  /\ asking' = Silent
  /\ UNCHANGED <<knowledge, conversations, turns, escalations>>

-----------------------------------------------------------------------------
(* Knowledge base.  An id stands for a slug, which is unique.              *)

SetArticle(a, article) ==
  /\ knowledge' = [knowledge EXCEPT ![a] = article]
  /\ UNCHANGED <<asking, conversations, turns, escalations>>

CreateKnowledge(a, text) ==
  /\ knowledge[a] = NoArticle
  /\ SetArticle(a, [active |-> TRUE, text |-> text])

UpdateKnowledge(a, text, active) ==
  /\ knowledge[a] # NoArticle
  /\ SetArticle(a, [active |-> active, text |-> text])

DeleteKnowledge(a) ==
  /\ knowledge[a] # NoArticle
  /\ SetArticle(a, NoArticle)

AssistNext ==
  \/ RunTools \/ Persist \/ Fail
  \/ \E u \in Askers, query \in Questions, c \in 0..Len(conversations) : Ask(u, query, c)
  \/ \E a \in ArticleIds :
       \/ DeleteKnowledge(a)
       \/ \E text \in Texts :
            CreateKnowledge(a, text) \/ \E on \in BOOLEAN : UpdateKnowledge(a, text, on)

AssistSpec == AssistInit /\ [][AssistNext]_assistVars

-----------------------------------------------------------------------------
(* Properties.                                                             *)

\* Nothing is guessed (ADR-0003): an answer that no person is asked to follow up rests on
\* a tool that succeeded or on an article that was active when the turn read the
\* knowledge base, and a sensitive question is always followed up.
GroundedOrEscalated ==
  \A i \in DOMAIN turns :
    LET t == turns[i]
    IN /\ t.citations \subseteq t.offered
       /\ t.reason = "none" => (t.usedTools # {} \/ t.citations # {}) /\ ~t.sensitive

\* Each escalated answer has its one ticket, with its reason, raised by its asker in a
\* conversation that the asker owns; and nobody writes into another's conversation.
OneTicketPerEscalation ==
  /\ \A i \in DOMAIN turns : conversations[turns[i].conversation] = turns[i].user
  /\ \A c \in DOMAIN conversations : \A reason \in {"sensitive_topic", "low_confidence"} :
       LET Of(rows) == {i \in DOMAIN rows : rows[i].conversation = c /\ rows[i].reason = reason}
       IN Cardinality(Of(turns)) = Cardinality(Of(escalations))
=============================================================================
