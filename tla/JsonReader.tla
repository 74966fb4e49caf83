----------------------------- MODULE JsonReader -----------------------------
(***************************************************************************)
(* The JSON reader of TERES-GMA1/tools/build.c.  It keeps no tree of the   *)
(* document: json__get scans the text again for every member and writes    *)
(* what it finds into a stack with one object per nesting level, so an     *)
(* object stays valid only until its level is written again.               *)
(*                                                                         *)
(* A text is a sequence of tokens.  Positions are token positions; the one *)
(* place where the width of a token matters is the end of a container      *)
(* (see LastRead).  Object 0 is the "undefined" object that also stands    *)
(* for an error, object 1 the root of the document.                        *)
(***************************************************************************)
EXTENDS Integers, Sequences

CONSTANT MaxDepth            \* json__MAX_DEPTH

ASSUME MaxDepthAssumption == MaxDepth \in Nat \ {0}

\* The element of a singleton.  A value bound by The({E(s) : s \in {v}}) is
\* computed once, where TLC computes a LET definition at every use.
The(S) == CHOOSE x \in S : TRUE

NoObject == -1               \* a NULL struct json__object *
Scanning == -2               \* json__get has not returned yet

Numbers  == {"7", "42"}
Keywords == {"null", "true", "false"}
Punct    == {"{", "}", "[", "]", ",", ":"}
Spaces   == {" "}
Garbage  == {"?"}            \* a character no case of the switch accepts

\* Tokens of one byte; a string has its two quotes, a keyword its letters.
OneByte == Punct \cup Spaces \cup Garbage \cup {"7"}

Containers == {"object", "object_array"}

ScalarType(tok) ==
  CASE tok \in Numbers -> "number"
    [] tok = "null"    -> "object_null"
    [] tok = "true"    -> "boolean_true"
    [] tok = "false"   -> "boolean_false"
    [] OTHER           -> "string"

\* One struct json__object.  cname and ctype announce the member that is
\* being read (child_name_s/_e, child_type).
Blank == [type |-> "undefined", state |-> "init", name |-> "", from |-> 0, to |-> 0,
          count |-> 0, cname |-> "", ctype |-> "undefined"]

\* The stack json__parse starts from (the levels above 0 are written before
\* they are read).
NewStack(text) ==
  [d \in 0..MaxDepth + 1 |->
     IF d = 0 THEN [Blank EXCEPT !.from = 1, !.to = Len(text) + 1] ELSE Blank]

-----------------------------------------------------------------------------
(* One call of json__get scans with: the stack, the object it is in (cur), *)
(* the last string read (name), and its return value (out).                *)

Failed(s) == [s EXCEPT !.out = 0]                     \* return json__error()

\* json__prepare_member
Prepared(o, type, name) ==
  IF o.state = "object_after_colon" THEN [o EXCEPT !.cname = name, !.ctype = type] ELSE o

\* json__add_member: the member of s.cur is written one level up, and a
\* data mismatch writes nothing.
AddMember(s, type, i) ==
  LET o == s.stack[s.cur]
  IN  IF o.ctype # "undefined" /\ (o.ctype # type \/ o.type # "object")
      THEN s
      ELSE [s EXCEPT
              !.stack[s.cur + 1] = [@ EXCEPT !.name = o.cname, !.type = type,
                                             !.from = i, !.to = i],
              !.stack[s.cur].ctype = "undefined",
              !.stack[s.cur].count = @ + 1]

\* json__push: the container opened at i becomes the current object.
Push(s, tok, i) ==
  LET o == s.stack[s.cur]
  IN  IF s.cur >= MaxDepth
      THEN Failed(s)
      ELSE [s EXCEPT
              !.stack[s.cur + 1] =
                 [type  |-> IF tok = "{" THEN "object" ELSE "object_array",
                  state |-> IF tok = "{" THEN "object_body" ELSE "array_body",
                  name  |-> IF o.ctype # "undefined" THEN o.cname ELSE "",
                  from  |-> i + 1, to |-> 0, count |-> 0,
                  cname |-> "", ctype |-> "undefined"],
              !.stack[s.cur].ctype = "undefined",
              !.stack[s.cur].count = @ + 1,
              !.cur = s.cur + 1]

Open(s, tok, i) ==
  LET o == s.stack[s.cur]
      type == IF tok = "{" THEN "object" ELSE "object_array"
      placed == [s EXCEPT !.stack[s.cur] =
                   [Prepared(o, type, s.name) EXCEPT
                      !.state = IF o.state \in {"array_body", "array_after_comma"}
                                THEN "array_after_member" ELSE "object_after_member"]]
  IN  IF \/ o.state = "init" /\ tok # "{"
         \/ o.state \notin {"init", "object_after_colon", "array_body", "array_after_comma"}
      THEN Failed(s)
      ELSE The({Push(p, tok, i) : p \in {placed}})

\* The two closers, with json__pop.
Close(s, tok, i, od) ==
  LET body == IF tok = "}"
              THEN {"object_body", "object_after_member", "object_after_comma"}
              ELSE {"array_body", "array_after_member", "array_after_comma"}
      popped == [s EXCEPT !.stack[s.cur].to = i - 1, !.cur = s.cur - 1]
  IN  IF s.stack[s.cur].state \notin body \/ s.cur < 1 THEN Failed(s)
      ELSE IF s.cur - 1 < od THEN [popped EXCEPT !.stack[s.cur - 1].state = "end"]
      ELSE popped

Comma(s) ==
  CASE s.stack[s.cur].state = "array_after_member" ->
         [s EXCEPT !.stack[s.cur].state = "array_after_comma"]
    [] s.stack[s.cur].state = "object_after_member" ->
         [s EXCEPT !.stack[s.cur].state = "object_after_comma"]
    [] OTHER -> Failed(s)

Colon(s) ==
  IF s.stack[s.cur].state = "object_after_name"
  THEN [s EXCEPT !.stack[s.cur].state = "object_after_colon"]
  ELSE Failed(s)

\* A string is the name of a member, its value, or an element.
String(s, tok, i) ==
  LET o == s.stack[s.cur]
      read == [s EXCEPT !.stack[s.cur] = Prepared(o, "string", s.name), !.name = tok]
  IN  CASE o.state = "object_after_colon" ->
             [AddMember(read, "string", i) EXCEPT !.stack[s.cur].state = "object_after_member"]
        [] o.state \in {"object_body", "object_after_comma"} ->
             [read EXCEPT !.stack[s.cur].state = "object_after_name"]
        [] o.state \in {"array_body", "array_after_comma"} ->
             [AddMember(read, "string", i) EXCEPT !.stack[s.cur].state = "array_after_member"]
        [] OTHER -> Failed(read)

\* Numbers and keywords are taken in any state, and leave their container
\* as if it were an object.
Literal(s, tok, i) ==
  LET type == ScalarType(tok)
      read == [s EXCEPT !.stack[s.cur] = Prepared(@, type, s.name)]
  IN  [AddMember(read, type, i) EXCEPT !.stack[s.cur].state = "object_after_member"]

\* The return conditions below the switch.
Returned(s, od) ==
  CASE s.out # Scanning -> s
    [] s.cur = od /\ s.stack[od].count = 1 -> [s EXCEPT !.out = od + 1]
    [] s.cur < od \/ s.stack[s.cur].state = "end" -> [s EXCEPT !.out = NoObject]
    [] OTHER -> s

\* One turn of the loop.
Token(s, tok, i, od) ==
  LET after == CASE tok \in {"{", "["} -> Open(s, tok, i)
                 [] tok \in {"}", "]"} -> Close(s, tok, i, od)
                 [] tok = ","          -> Comma(s)
                 [] tok = ":"          -> Colon(s)
                 [] tok \in Spaces     -> s
                 [] tok \in Numbers \cup Keywords -> Literal(s, tok, i)
                 [] tok \in Garbage    -> Failed(s)
                 [] OTHER              -> String(s, tok, i)
  IN  The({Returned(t, od) : t \in {after}})

\* json__pop sets value_end one byte before the closer and json__get reads
\* while i < value_end: a token of one byte right before a closer is not read.
LastRead(text, o, d) ==
  IF d = 0 THEN Len(text)
  ELSE IF text[o.to] \in OneByte THEN o.to - 1 ELSE o.to

\* json__get(obj, child): the stack it leaves and the object it returns.
Get(text, stack, obj, child) ==
  LET o     == stack[obj]
      start == CASE child = NoObject -> o.from
                 [] child # NoObject /\ stack[child].type \in Containers -> stack[child].to + 2
                 [] OTHER -> stack[child].to + 1
      last  == LastRead(text, o, obj)
      first == [stack |-> [stack EXCEPT ![obj].count = 0], cur |-> obj, name |-> "",
                out |-> Scanning]
      scan[i \in start - 1..last] ==
        IF i < start THEN first
        ELSE The({IF s.out = Scanning THEN Token(s, text[i], i, obj) ELSE s : s \in {scan[i - 1]}})
  IN  IF obj >= MaxDepth
      THEN [stack |-> stack, out |-> 0]
      ELSE The({[stack |-> s.stack, out |-> IF s.out = Scanning THEN NoObject ELSE s.out] :
                  s \in {IF last < start THEN first ELSE scan[last]}})

StateKept(text, stack, obj, child) ==  \* mutant: the state is not reset
  Get(text, [stack EXCEPT ![obj].count = 0], obj, child)
\* json__get_next
GetNext(text, stack, obj, child) ==
  LET state == CASE stack[obj].type = "object_array" -> "array_body"
                 [] stack[obj].type = "object"       -> "object_body"
                 [] OTHER                            -> "init"
  IN  Get(text,
          IF child = NoObject
          THEN [stack EXCEPT ![obj].state = state, ![obj].count = 0]
          ELSE [stack EXCEPT ![obj].count = 0],
          obj, child)

\* json__parse
Parse(text) == Get(text, NewStack(text), 0, NoObject)

\* json__match and json__copy_string: names and values are compared and
\* copied whole; the value of a container is its text.
Match(o, name) == o.name = name

RawText == "(text)"
CopyString(text, o) == IF o.type \in Containers \cup {"undefined"} THEN RawText ELSE text[o.from]
=============================================================================
