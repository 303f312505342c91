-------------------------- MODULE ToolCallsProofs --------------------------
(***************************************************************************)
(* What holds of the tool calls for every set of calls, tenants, servers    *)
(* and accounts, whatever the backends reply.                               *)
(***************************************************************************)
EXTENDS ToolCalls, SequenceTheorems, TLAPS

-----------------------------------------------------------------------------
(* A tool belongs to one of the two backends. *)
LEMMA ToolsSplit == CrmTools \subseteq Tools /\ \A tool \in Tools \ CrmTools : tool \in CustomTools
BY DEF Tools

(* A text has a column, and the defaults are columns. *)
LEMMA ColumnExists ==
  ASSUME NEW map \in FieldMaps, NEW text \in Texts
  PROVE  Column(map, text) \in Columns
BY ColumnsAssumption DEF Column, Texts, DEFAULT_INCIDENT_MAP

(* The texts of case e are in its body, but for one that another write covers. *)
TextsIn(e) ==
  \A text \in e.given :
     \/ \E col \in Columns : e.body[col] = text
     \/ Column(e.map, text) = Bind
     \/ /\ text = "subject" /\ "description" \in e.given
        /\ Column(e.map, "subject") = Column(e.map, "description")

(* What is in the body of a case: the account it is opened for, and each text *)
(* that is given, unless another write takes its column.                      *)
LEMMA BodyOfACase ==
  ASSUME NEW map \in FieldMaps, NEW given \in SUBSET Texts, NEW account \in Accounts \cup {None},
         NEW s, NEW e,
         e = [server |-> s, map |-> map, given |-> given, body |-> IncidentBody(map, given, account)]
  PROVE  e.body \in Body /\ e.body[Bind] = account /\ TextsIn(e)
<1>1. e.map = map /\ e.given = given /\ e.body = IncidentBody(map, given, account)
  OBVIOUS
<1>2. e.body \in Body
  BY <1>1 DEF IncidentBody, Body, Texts
<1>3. e.body[Bind] = account
  BY <1>1, ColumnsAssumption DEF IncidentBody
<1>4. ASSUME NEW text \in given,
             Column(map, text) # Bind,
             ~ (/\ text = "subject" /\ "description" \in given
                /\ Column(map, "subject") = Column(map, "description"))
      PROVE  \E col \in Columns : e.body[col] = text
  <2>1. Column(map, text) \in Columns
    BY ColumnExists
  <2>2. text = "subject" \/ text = "description"
    BY DEF Texts
  <2>3. IncidentBody(map, given, account)[Column(map, text)] = text
    BY <1>4, <2>1, <2>2 DEF IncidentBody
  <2> QED BY <1>1, <2>1, <2>3
<1>5. TextsIn(e)
  BY <1>1, <1>4 DEF TextsIn
<1> QED BY <1>2, <1>3, <1>5

(* An answered call is well formed. *)
LEMMA AnswerTyped ==
  ASSUME TypeOK, NEW c \in Calls, call[c].tool \in Tools, NEW answer \in Answers,
         Answer(c, answer), UNCHANGED <<config, match, read, done>>
  PROVE  TypeOK'
<1>1. [pc |-> "answered", tool |-> call[c].tool, answer |-> answer] \in Call
  BY DEF Call
<1> QED BY <1>1 DEF TypeOK, Answer, Goto

(* A step of a handler keeps its call well formed. *)
LEMMA CallTyped ==
  ASSUME TypeOK, NEW c \in Calls, CallStep(c)
  PROVE  TypeOK'
<1> USE DEF TypeOK, Goto, Answer
<1>1. CASE \E tool \in Tools, t \in Tenants : Start(c, tool, t)
  BY <1>1 DEF Start, Call
<1>0. CASE \E body \in DOMAIN Served : Serve(c, body)
  BY <1>0 DEF Serve, Call
<1>2. CASE NotConfigured(c) \/ StoreFails(c) \/ DecryptFails(c)
  <2>1. call[c].tool \in Tools
    BY <1>2 DEF NotConfigured, StoreFails, DecryptFails, Call
  <2>2. PICK answer \in Answers : Answer(c, answer)
    BY <1>2 DEF NotConfigured, StoreFails, DecryptFails, Answers, ToolAnswers
  <2>3. UNCHANGED <<config, match, read, done>>
    BY <1>2 DEF NotConfigured, StoreFails, DecryptFails
  <2> HIDE DEF TypeOK, Goto, Answer
  <2> QED BY <2>1, <2>2, <2>3, AnswerTyped
<1>3. CASE ReadConfig(c)
  BY <1>3, NoneAssumption DEF ReadConfig, Call
<1>8. CASE Connect(c)
  BY <1>8 DEF Connect, Call
<1>4. CASE LookupReached(c)
  <2>1. /\ call[c].client \in Registration /\ call[c].client.server \in Servers
        /\ call[c].tool \in CrmTools
    BY <1>4 DEF LookupReached, Call, Registration
  <2>2. call' \in [Calls -> Call]
    BY <1>4, <2>1 DEF LookupReached, Call
  <2>3. read' \in [Calls -> Looked \cup {None}]
    BY <1>4, <2>1 DEF LookupReached, Looked
  <2> QED BY <1>4, <2>2, <2>3 DEF LookupReached
<1>5. CASE Match(c)
  <2>1. call[c] \in [pc : {"found"}, tool : CrmTools, client : Registration,
                     account : Accounts \cup {None}]
    BY <1>5 DEF Match, Call
  <2>2. [call[c] EXCEPT !.pc = "acting"] \in Call
    BY <2>1, ToolsSplit DEF Call
  <2>3. [pc |-> "answered", tool |-> call[c].tool, answer |-> "verified"] \in Call
    BY <2>1, ToolsSplit DEF Call, Answers, ToolAnswers
  <2> QED BY <1>5, <2>2, <2>3 DEF Match
<1>6. ASSUME NEW given \in SUBSET Texts, RequestReached(c, given) PROVE TypeOK'
  <2>1. call[c] \in [pc : {"acting", "acted"}, tool : Tools, client : Registration,
                     account : Accounts \cup {None}]
    BY <1>6 DEF RequestReached, Call
  <2>2. [call[c] EXCEPT !.pc = "acted"] \in Call
    BY <2>1 DEF Call
  <2>3. call' \in [Calls -> Call]
    BY <1>6, <2>2 DEF RequestReached
  <2>4. Asked(c, given) \in Effect
    <3>1. /\ call[c].client.server \in Servers /\ call[c].client.map \in FieldMaps
          /\ call[c].account \in Accounts \cup {None}
      BY <2>1 DEF Registration
    <3>2. CASE call[c].tool = "create_support_case"
      <4>1. Asked(c, given).body \in Body
        BY <3>1, <3>2, BodyOfACase DEF Asked
      <4> QED BY <3>1, <3>2, <4>1 DEF Asked, Effect
    <3> QED BY <3>1, <3>2 DEF Asked, Effect
  <2>5. Append(done[c], Asked(c, given)) \in Seq(Effect)
    BY <2>4
  <2>6. done' \in [Calls -> Seq(Effect)]
    BY <1>6, <2>5 DEF RequestReached
  <2> QED BY <1>6, <2>3, <2>6 DEF RequestReached
<1>7. ASSUME NEW reply, VaultFails(c, reply) \/ LookupFails(c, reply) \/ NoMatch(c, reply)
                        \/ RequestAnswered(c, reply)
      PROVE  TypeOK'
  <2>1. call[c].pc \in {"vault", "lookup", "found", "acting", "acted"}
    BY <1>7 DEF VaultFails, LookupFails, NoMatch, RequestAnswered
  <2>2. call[c].tool \in Tools
    BY <2>1, ToolsSplit DEF Call
  <2>3. PICK answer \in Answers : Answer(c, answer)
    BY <1>7 DEF VaultFails, LookupFails, NoMatch, RequestAnswered, Answers, ToolAnswers
  <2>4. UNCHANGED <<config, match, read, done>>
    BY <1>7 DEF VaultFails, LookupFails, NoMatch, RequestAnswered
  <2> HIDE DEF TypeOK, Goto, Answer
  <2> QED BY <2>2, <2>3, <2>4, AnswerTyped
<1> QED BY <1>0, <1>1, <1>2, <1>3, <1>4, <1>5, <1>6, <1>7, <1>8 DEF CallStep

(* A call that dies with the process is well formed. *)
LEMMA RestartTyped == ASSUME TypeOK, Restart PROVE TypeOK'
<1>1. \A c \in Calls : call[c].pc \in Running => call[c].tool \in Tools
  BY ToolsSplit DEF TypeOK, Call, Running
<1>2. \A c \in Calls : call'[c] \in Call
  BY <1>1 DEF TypeOK, Restart, Call, Answers
<1>3. call' \in [Calls -> Call]
  BY <1>2 DEF Restart
<1> QED BY <1>3 DEF TypeOK, Restart

(* Every reachable state is well formed: no reply leaves a handler half done. *)
THEOREM CallsTypeCorrect == Spec => []TypeOK
<1>1. Init => TypeOK
  BY EmptySeq DEF Init, TypeOK, Call
<1>2. TypeOK /\ [Next]_vars => TypeOK'
  <2> SUFFICES ASSUME TypeOK, [Next]_vars PROVE TypeOK'
    OBVIOUS
  <2>1. CASE UNCHANGED vars
    BY <2>1 DEF TypeOK, vars
  <2>2. ASSUME NEW t \in Tenants, NEW r \in Registration \cup {None}, Reconfigure(t, r) PROVE TypeOK'
    BY <2>2 DEF Reconfigure, TypeOK
  <2>3. ASSUME NEW s \in Servers, NEW g \in Accounts \cup {None}, Relink(s, g) PROVE TypeOK'
    BY <2>3 DEF Relink, TypeOK
  <2> QED BY <2>1, <2>2, <2>3, CallTyped, RestartTyped DEF Next
<1> QED BY <1>1, <1>2, PTL DEF Spec

-----------------------------------------------------------------------------
(* What a handler has done so far, at each of its control points.            *)
Selected(c) == [server |-> call[c].client.server, account |-> call[c].account]

(* Effect e is a case for the account call c looked up, with its texts in it. *)
CaseOf(c, e) ==
  /\ read[c].account # None
  /\ e.server = read[c].server
  /\ e.body[Bind] = read[c].account
  /\ TextsIn(e)

CallInv(c) ==
  /\ call[c].pc \in {"new", "served", "resolving", "vault", "lookup", "found", "acting"} => done[c] = <<>>
  /\ call[c].pc = "found" => read[c] = Selected(c)
  /\ call[c].pc \in {"acting", "acted"} /\ call[c].tool \in CrmTools
       => read[c] = Selected(c) /\ call[c].account # None
  /\ call[c].pc = "acted"
       => IF call[c].tool \in Effectful
          THEN \E given \in SUBSET Texts : done[c] = <<Asked(c, given)>>
          ELSE done[c] = <<>>
  /\ call[c].pc = "answered" =>
       /\ call[c].answer \in {"not_configured", "no_match", "verified", "store_failed", "undecryptable"}
            => done[c] = <<>>
       /\ call[c].answer = "verified" => call[c].tool = "verify_account"
       /\ call[c].answer = "result" /\ call[c].tool \in Effectful => Len(done[c]) = 1
       /\ call[c].answer = "declined" /\ call[c].tool = "reverse_fee" => done[c] = <<>>
       /\ done[c] = <<>>
          \/ \E e : done[c] = <<e>> /\ (call[c].tool = "create_support_case" => CaseOf(c, e))

(* A call at one of the named points is not at another, and vice versa. *)
LEMMA Points ==
  ASSUME TypeOK, NEW c \in Calls
  PROVE  call[c].pc \in {"new", "served", "resolving", "vault", "lookup", "found", "acting", "acted",
                       "answered"}
BY DEF TypeOK, Call

(* What a verified call asks for is a case of that account. *)
LEMMA AskedIsACase ==
  ASSUME TypeOK, NEW c \in Calls, NEW given \in SUBSET Texts,
         call[c].pc = "acted", call[c].tool = "create_support_case",
         read[c] = Selected(c), call[c].account # None
  PROVE  CaseOf(c, Asked(c, given))
<1>1. call[c].client \in Registration /\ call[c].account \in Accounts \cup {None}
  BY DEF TypeOK, Call
<1>2. call[c].client.map \in FieldMaps
  BY <1>1 DEF Registration
<1>3. PICK e : e = Asked(c, given)
  OBVIOUS
<1>4. e = [server |-> call[c].client.server, map |-> call[c].client.map, given |-> given,
           body |-> IncidentBody(call[c].client.map, given, call[c].account)]
  BY <1>3 DEF Asked
<1>5. e.body[Bind] = call[c].account /\ TextsIn(e)
  BY <1>1, <1>2, <1>4, BodyOfACase
<1>6. read[c].server = call[c].client.server /\ read[c].account = call[c].account
  BY DEF Selected
<1>7. e.server = call[c].client.server
  BY <1>4
<1> QED BY <1>3, <1>5, <1>6, <1>7 DEF CaseOf

(* No reply to a request that was not carried out becomes a reported effect: a  *)
(* tool that changes something has a place for each in its tables.              *)
LEMMA FruitlessIsNoResult ==
  ASSUME NEW tool \in Effectful, NEW reply \in Fruitless(tool)
  PROVE  reply \in Raises(Method(tool)) \cup Leaks(Method(tool)) \cup Declines(Method(tool))
                   \cup Blank(Method(tool))
<1> USE DEF Fruitless, Unsent, Replies, Raises, Leaks, Declines, Blank, Method, CrmTools
<1>1. CASE tool = "create_support_case"
  BY <1>1
<1>2. CASE tool = "reverse_fee"
  BY <1>2
<1>3. CASE tool = "request_password_reset"
  BY <1>3
<1> QED BY <1>1, <1>2, <1>3 DEF Effectful

(* A step of call c keeps the invariant of c. *)
LEMMA OwnStep ==
  ASSUME TypeOK, NEW c \in Calls, CallStep(c), CallInv(c)
  PROVE  CallInv(c)'
<1> USE DEF TypeOK, Goto, Answer, CallInv, Selected
<1>1. CASE \E tool \in Tools, t \in Tenants : Start(c, tool, t)
  BY <1>1 DEF Start
<1>0. CASE \E body \in DOMAIN Served : Serve(c, body)
  BY <1>0 DEF Serve
<1>2. CASE NotConfigured(c) \/ StoreFails(c) \/ DecryptFails(c)
  BY <1>2 DEF NotConfigured, StoreFails, DecryptFails
<1>3. CASE ReadConfig(c) \/ Connect(c)
  BY <1>3 DEF ReadConfig, Connect
<1>4. CASE LookupReached(c)
  BY <1>4 DEF LookupReached
<1>5. CASE Match(c)
  <2>1. call[c] \in [pc : {"found"}, tool : CrmTools, client : Registration,
                     account : Accounts \cup {None}]
    BY <1>5 DEF Match, Call
  <2>2. CASE call'[c] = [pc |-> "answered", tool |-> call[c].tool, answer |-> "verified"]
    BY <1>5, <2>1, <2>2 DEF Match
  <2>3. CASE call'[c] = [call[c] EXCEPT !.pc = "acting"]
    <3>1. /\ call'[c].pc = "acting" /\ call'[c].tool = call[c].tool
          /\ call'[c].client = call[c].client /\ call'[c].account = call[c].account
      BY <2>1, <2>3
    <3> QED BY <1>5, <3>1 DEF Match
  <2> QED BY <1>5, <2>2, <2>3 DEF Match
<1>6. ASSUME NEW given \in SUBSET Texts, RequestReached(c, given) PROVE CallInv(c)'
  <2>1. done[c] = <<>> /\ call[c].pc = "acting"
    BY <1>6 DEF RequestReached
  <2>2. call'[c] = [call[c] EXCEPT !.pc = "acted"] /\ read' = read
    BY <1>6 DEF RequestReached
  <2>3. /\ call'[c].pc = "acted" /\ call'[c].tool = call[c].tool
        /\ call'[c].client = call[c].client /\ call'[c].account = call[c].account
    BY <2>1, <2>2 DEF Call
  <2>4. Asked(c, given)' = Asked(c, given)
    BY <2>3 DEF Asked
  <2>5. done'[c] = IF call[c].tool \in Effectful THEN <<Asked(c, given)>> ELSE <<>>
    BY <1>6, <2>1 DEF RequestReached
  <2>6. IF call'[c].tool \in Effectful
        THEN \E g \in SUBSET Texts : done'[c] = <<Asked(c, g)'>>
        ELSE done'[c] = <<>>
    BY <2>3, <2>4, <2>5
  <2> QED BY <2>1, <2>2, <2>3, <2>6
<1>7. ASSUME NEW reply, VaultFails(c, reply) \/ LookupFails(c, reply) PROVE CallInv(c)'
  BY <1>7 DEF VaultFails, LookupFails
<1>8. ASSUME NEW reply, NoMatch(c, reply) PROVE CallInv(c)'
  BY <1>8 DEF NoMatch
<1>9. ASSUME NEW reply \in Replies \cup {"no_token", "no_guid", "decline"}, RequestAnswered(c, reply)
      PROVE  CallInv(c)'
  <2> DEFINE tool == call[c].tool
  <2>1. done' = done /\ read' = read
    BY <1>9 DEF RequestAnswered
  <2>2. PICK answer \in {"unavailable", "http500", "declined", "blank", "result"} :
          call'[c] = [pc |-> "answered", tool |-> tool, answer |-> answer]
    BY <1>9 DEF RequestAnswered
  <2>3. done[c] = <<>>
        \/ \E e : done[c] = <<e>> /\ (tool = "create_support_case" => CaseOf(c, e))
    <3>1. CASE call[c].pc = "acting"
      BY <3>1
    <3>2. CASE call[c].pc = "acted" /\ tool \in Effectful
      <4>1. PICK given \in SUBSET Texts : done[c] = <<Asked(c, given)>>
        BY <3>2
      <4>2. tool = "create_support_case" => CaseOf(c, Asked(c, given))
        BY <3>2, AskedIsACase DEF CrmTools
      <4> QED BY <4>1, <4>2
    <3>3. CASE call[c].pc = "acted" /\ tool \notin Effectful
      BY <3>3
    <3> QED BY <1>9, <3>1, <3>2, <3>3 DEF RequestAnswered
  <2>4. ASSUME answer = "result", tool \in Effectful PROVE Len(done[c]) = 1
    <3>1. CASE call[c].pc = "acted"
      <4>1. PICK given \in SUBSET Texts : done[c] = <<Asked(c, given)>>
        BY <2>4, <3>1
      <4> QED BY <4>1
    <3>2. CASE call[c].pc = "acting"
      <4>1. reply \in Fruitless(tool)
        BY <1>9, <3>2 DEF RequestAnswered
      <4>2. /\ reply \in Raises(Method(tool)) \cup Leaks(Method(tool)) \cup Declines(Method(tool))
                          \cup Blank(Method(tool))
            /\ answer = "result"
        BY <4>1, <2>4, FruitlessIsNoResult
      <4>3. call'[c].answer # "result"
        BY <1>9, <4>2 DEF RequestAnswered
      <4> QED BY <2>2, <2>4, <4>3
    <3> QED BY <1>9, <3>1, <3>2 DEF RequestAnswered
  <2>5. ASSUME answer = "declined", tool = "reverse_fee" PROVE done[c] = <<>>
    <3>1. reply \in Declines(Method(tool))
      BY <1>9, <2>2, <2>5 DEF RequestAnswered
    <3>2. reply \notin Replies
      BY <2>5, <3>1 DEF Declines, Method, Replies
    <3> QED BY <1>9, <3>2 DEF RequestAnswered
  <2>6. call'[c].pc = "answered" /\ call'[c].tool = tool /\ call'[c].answer = answer
    BY <2>2
  <2>7. \A e : CaseOf(c, e) => CaseOf(c, e)'
    BY <2>1 DEF CaseOf
  <2> QED BY <2>1, <2>3, <2>4, <2>5, <2>6, <2>7
<1> QED BY <1>0, <1>1, <1>2, <1>3, <1>4, <1>5, <1>6, <1>7, <1>8, <1>9 DEF CallStep

(* A step of another call, or of the environment, leaves c alone. *)
LEMMA OthersStep ==
  ASSUME TypeOK, NEW c \in Calls, NEW d \in Calls, d # c, CallStep(d)
  PROVE  call'[c] = call[c] /\ read'[c] = read[c] /\ done'[c] = done[c]
BY DEF TypeOK, CallStep, Goto, Answer, Serve, Start, NotConfigured, StoreFails, DecryptFails, VaultFails, ReadConfig,
       Connect, LookupReached, LookupFails, NoMatch, Match, RequestReached, RequestAnswered

(* The history of a call has the shape its control point says. *)
LEMMA Effects ==
  ASSUME TypeOK, NEW c \in Calls, CallInv(c)
  PROVE  \/ done[c] = <<>>
         \/ \E e : done[c] = <<e>> /\ (call[c].tool = "create_support_case" => CaseOf(c, e))
<1>1. CASE call[c].pc = "acted" /\ call[c].tool \in Effectful
  <2>1. PICK given \in SUBSET Texts : done[c] = <<Asked(c, given)>>
    BY <1>1 DEF CallInv
  <2>2. call[c].tool = "create_support_case" => CaseOf(c, Asked(c, given))
    BY <1>1, AskedIsACase DEF CallInv, CrmTools
  <2> QED BY <2>1, <2>2
<1>2. CASE call[c].pc = "answered"
  BY <1>2 DEF CallInv
<1> QED BY <1>1, <1>2, Points DEF CallInv

(* A call that dies with the process keeps what it has done. *)
LEMMA RestartKeeps ==
  ASSUME TypeOK, NEW c \in Calls, CallInv(c), Restart
  PROVE  CallInv(c)'
<1>1. read'[c] = read[c] /\ done'[c] = done[c]
  BY DEF Restart
<1>2. \A e : CaseOf(c, e)' <=> CaseOf(c, e)
  BY <1>1 DEF CaseOf
<1>3. CASE call[c].pc \in Running
  <2>1. /\ call'[c].pc = "answered" /\ call'[c].answer = "cut"
        /\ call'[c].tool = call[c].tool
    BY <1>3 DEF Restart
  <2>2. \/ done[c] = <<>>
        \/ \E e : done[c] = <<e>> /\ (call[c].tool = "create_support_case" => CaseOf(c, e))
    BY Effects
  <2> QED BY <1>1, <1>2, <2>1, <2>2 DEF CallInv
<1>4. CASE call[c].pc \notin Running
  <2>1. call'[c] = call[c] /\ call[c].pc \in {"new", "served", "answered"}
    BY <1>4, Points DEF Restart, Running
  <2> QED BY <1>1, <1>2, <2>1 DEF CallInv
<1> QED BY <1>3, <1>4

(* The invariant of every call holds in every reachable state. *)
LEMMA CallsInvariant == Spec => [](TypeOK /\ \A c \in Calls : CallInv(c))
<1>1. Init => \A c \in Calls : CallInv(c)
  BY DEF Init, CallInv
<1>2. TypeOK /\ (\A c \in Calls : CallInv(c)) /\ [Next]_vars
        => (\A c \in Calls : CallInv(c))'
  <2> SUFFICES ASSUME TypeOK, \A c \in Calls : CallInv(c), [Next]_vars, NEW c \in Calls
               PROVE  CallInv(c)'
    OBVIOUS
  <2>1. ASSUME call'[c] = call[c], read'[c] = read[c], done'[c] = done[c] PROVE CallInv(c)'
    <3>1. \A given : Asked(c, given)' = Asked(c, given)
      BY <2>1 DEF Asked
    <3>2. \A e : CaseOf(c, e)' <=> CaseOf(c, e)
      BY <2>1 DEF CaseOf
    <3>3. Selected(c)' = Selected(c)
      BY <2>1 DEF Selected
    <3> QED BY <2>1, <3>1, <3>2, <3>3 DEF CallInv
  <2>2. CASE UNCHANGED vars
    BY <2>1, <2>2 DEF vars
  <2>3. CASE \/ \E t \in Tenants, r \in Registration \cup {None} : Reconfigure(t, r)
             \/ \E s \in Servers, g \in Accounts \cup {None} : Relink(s, g)
    BY <2>1, <2>3 DEF Reconfigure, Relink
  <2>4. ASSUME NEW d \in Calls, CallStep(d) PROVE CallInv(c)'
    BY <2>1, <2>4, OwnStep, OthersStep
  <2> QED BY <2>2, <2>3, <2>4, RestartKeeps DEF Next
<1> QED BY <1>1, <1>2, CallsTypeCorrect, PTL DEF Spec

(* What is opened by create_support_case is a case of the looked up account. *)
LEMMA OpenedIsACase ==
  ASSUME TypeOK, NEW c \in Calls, CallInv(c), NEW i \in 1..Len(done[c]),
         call[c].tool = "create_support_case"
  PROVE  CaseOf(c, done[c][i])
<1>1. done[c] # <<>>
  OBVIOUS
<1>2. PICK e : done[c] = <<e>> /\ CaseOf(c, e)
  BY <1>1, Effects
<1>3. done[c][i] = e
  BY <1>2
<1> QED BY <1>2, <1>3

(* A case is opened only for the account the call's own lookup selected, in  *)
(* the organisation that selected it, whatever the field_map.                 *)
THEOREM CasesAreForVerifiedAccounts == Spec => []CaseForVerifiedAccount
<1>1. TypeOK /\ (\A c \in Calls : CallInv(c)) => CaseForVerifiedAccount
  BY OpenedIsACase DEF CaseForVerifiedAccount, CaseOf
<1> QED BY <1>1, CallsInvariant, PTL

(* A customer's text is in the case unless the field_map has it overwritten,   *)
(* whatever part of the columns it overrides by the keys the code reads.       *)
THEOREM NoTextIsLost == Spec => []TextsReachTheCase
<1>1. TypeOK /\ (\A c \in Calls : CallInv(c)) => TextsReachTheCase
  BY OpenedIsACase DEF TextsReachTheCase, CaseOf, TextsIn
<1> QED BY <1>1, CallsInvariant, PTL

(* However replies are lost, one call has at most one effect. *)
THEOREM CallsActAtMostOnce == Spec => []AtMostOneEffect
<1>1. TypeOK /\ (\A c \in Calls : CallInv(c)) => AtMostOneEffect
  <2> SUFFICES ASSUME TypeOK, NEW c \in Calls, CallInv(c) PROVE Len(done[c]) <= 1
    BY DEF AtMostOneEffect
  <2>1. done[c] = <<>> \/ \E r : done[c] = <<r>>
    BY Effects
  <2>2. ASSUME NEW r, done[c] = <<r>> PROVE Len(done[c]) = 1
    BY <2>2
  <2>3. ASSUME done[c] = <<>> PROVE Len(done[c]) = 0
    BY <2>3, EmptySeq
  <2>4. 0 <= 1 /\ 1 <= 1
    OBVIOUS
  <2> QED BY <2>1, <2>2, <2>3, <2>4
<1> QED BY <1>1, CallsInvariant, PTL

(* A reported effect took place though replies may come from requests that     *)
(* were not carried out, a reported decline did not, and a refused customer had *)
(* nothing done.                                                               *)
THEOREM AnswersAreHonest == Spec => []AnswerMatchesEffect
<1>1. TypeOK /\ (\A c \in Calls : CallInv(c)) => AnswerMatchesEffect
  BY DEF AnswerMatchesEffect, CallInv, Answered
<1> QED BY <1>1, CallsInvariant, PTL
=============================================================================
