------------------------------ MODULE Secrets ------------------------------
(***************************************************************************)
(* client.secrets: a secret is made and then given its values, in two      *)
(* requests; its values are replaced or merged; they are read as a map or  *)
(* as a document, whole or by keys, and a document read may be put back.   *)
(* Several programs work on one secret (services.py, async_services.py,    *)
(* secret_formats.py).                                                     *)
(*                                                                         *)
(* A value is a sequence of characters, of which the model knows one of    *)
(* every kind that the two codecs of the SDK treat alike.  (An equals sign *)
(* is a letter to them, except behind a cut.)  A document is its lines,    *)
(* one text for each key.  JSON documents are left to the json module.     *)
(***************************************************************************)
EXTENDS Naturals, Sequences, FiniteSets, SequencesExt

CONSTANTS
  Programs,
  Fields,       \* the keys of the map
  Maps,         \* maps of values a program may give
  MaxRetries,   \* MAX_RETRIES (2 in the code)
  MaxOps,       \* operations called, all programs together
  MaxLate       \* abandoned requests on their way at once

Bs == "backslash"
Dq == "quote"
Sq == "apostrophe"
Hash == "#"
Colon == ":"          \* with { } [ ] , & * ! | > % @ and the backquote
Tilde == "~"          \* with true, false and null
Sp == "blank"
Nb == "no-break"      \* white space that JSON writes as \u and digits
Lf == "linefeed"
Cr == "return"
Tab == "tab"
Ff == "formfeed"      \* with \x0b, \x1c to \x1e, \x85, \u2028 and \u2029
Nul == "nul"
Uni == "accented"     \* what is not ASCII, and other control characters

Chars == {"a", "n", "r", "t", "u", Bs, Dq, Sq, Hash, Colon, Tilde, Sp, Nb, Lf, Cr, Tab, Ff, Nul, Uni}

White == {Sp, Nb, Lf, Cr, Tab, Ff}
Breaks == {Lf, Cr, Ff}    \* where splitlines() cuts

None == <<"none">>

ASSUME MapsAssumption == \A map \in Maps : map \in [Fields -> Seq(Chars) \cup {None}]
ASSUME BoundsAssumption == MaxRetries \in Nat /\ MaxOps \in Nat /\ MaxLate \in Nat

VARIABLES
  secret,       \* the secret at the service: the call that made it, and its values
  op,           \* op[p]: the operation of program p
  wire,         \* abandoned requests
  calls,
  writers,      \* history: the creates whose values went into the secret
  touched       \* history: programs whose secret another call changed after they read it

vars == <<secret, op, wire, calls, writers, touched>>

NoValues == [f \in Fields |-> None]
Given(map) == {f \in Fields : map[f] # None}

-----------------------------------------------------------------------------
(* The codecs.                                                             *)
Occur(S, v) == \E i \in DOMAIN v : v[i] \in S

(* Between quotes the env writer escapes what its reader knows, and leaves *)
(* the rest as it is; json.dumps, which writes for YAML, leaves nothing    *)
(* but ASCII.  (Of \f and of \u and its digits the model keeps a u.)       *)
Escape(fmt, c) ==
  CASE c \in {Bs, Dq} -> <<Bs, c>>
    [] c = Lf -> <<Bs, "n">> [] c = Cr -> <<Bs, "r">> [] c = Tab -> <<Bs, "t">>
    [] fmt = "yaml" /\ c \in {Nb, Ff, Nul, Uni} -> <<Bs, "u">>
    [] OTHER -> <<c>>

Escaped(fmt, v) == FlattenSeq([i \in DOMAIN v |-> Escape(fmt, v[i])])

(* The place is the first, third... of its row of characters c.            *)
Odd(c, t, i) ==
  LET row == {j \in 1..i : \A k \in j..i : t[k] = c} IN Cardinality(row) % 2 = 1

(* A backslash begins a pair if it is the first, third... of its row.      *)
Pairs(t) == {i \in 1..Len(t) - 1 : t[i] = Bs /\ Odd(Bs, t, i)}

(* The chain of replace() calls: the row of backslashes first, with a NUL  *)
(* in the place of each pair, and all NULs made backslashes at the end.    *)
(* YAML knows of three pairs only.                                         *)
Single(c) == IF c = Nul THEN Bs ELSE c

Pair(fmt, c) ==
  CASE c = "n" -> <<Lf>> [] c \in {Bs, Dq} -> <<c>>
    [] fmt = "env" /\ c = "r" -> <<Cr>> [] fmt = "env" /\ c = "t" -> <<Tab>>
    [] OTHER -> <<Bs, Single(c)>>

Unescaped(fmt, t) ==
  FlattenSeq([i \in DOMAIN t |->
    IF i - 1 \in Pairs(t) THEN <<>>
    ELSE IF i \in Pairs(t) THEN Pair(fmt, t[i + 1]) ELSE <<Single(t[i])>>])

(* Of two apostrophes one remains.                                         *)
Undoubled(t) ==
  FlattenSeq([i \in DOMAIN t |-> IF t[i] = Sq /\ ~Odd(Sq, t, i) THEN <<>> ELSE <<t[i]>>])

Quote(fmt, v) == <<Dq>> \o Escaped(fmt, v) \o <<Dq>>

Quoted(t) == t # <<>> /\ t[1] \in {Dq, Sq} /\ t[Len(t)] = t[1]

(* Mutated form: a quote is no reason for quotes.                          *)
EnvNeedsQuotesForBlanks(v) == v = <<>> \/ Occur(White \cup {Hash}, v)

EnvNeedsQuotes(v) == v = <<>> \/ Occur(White \cup {Hash, Dq, Sq}, v)

(* A quote is no reason for quotes in YAML; of the white space that may    *)
(* stand inside a line, none is except at the ends.                        *)
YamlNeedsQuotes(v) ==
  v \in {<<>>, <<Tilde>>} \/ Occur({Hash, Colon, Lf, Cr, Tab}, v) \/ v[1] \in White \/ v[Len(v)] \in White

NeedsQuotes(fmt, v) == IF fmt = "env" THEN EnvNeedsQuotes(v) ELSE YamlNeedsQuotes(v)

Written(fmt, v) == IF NeedsQuotes(fmt, v) THEN Quote(fmt, v) ELSE v

Serialized(fmt, map) == [f \in Fields |-> IF map[f] = None THEN None ELSE Written(fmt, map[f])]

(* The text is cut into lines, of which the first has the key and its      *)
(* value.                                                                  *)
Cuts(t) == {i \in DOMAIN t : t[i] \in Breaks}

FirstLine(t) == IF Cuts(t) = {} THEN t ELSE SubSeq(t, 1, Min(Cuts(t)) - 1)

Stripped(t) ==
  LET kept == {i \in DOMAIN t : t[i] \notin White}
  IN  IF kept = {} THEN <<>> ELSE SubSeq(t, Min(kept), Max(kept))

Line(t) == Stripped(FirstLine(t))

(* SubSeq(line, 2, Len(line) - 1) of a lone quote is empty, as in Python.  *)
ParsedLine(fmt, t) ==
  LET line == Line(t)
      inner == SubSeq(line, 2, Len(line) - 1)
  IN  IF ~Quoted(line) THEN line
      ELSE IF line[1] = Dq THEN Unescaped(fmt, inner)
      ELSE IF fmt = "yaml" THEN Undoubled(inner) ELSE inner

(* A line with neither a key and its value nor a comment is an error, and  *)
(* so are a YAML key with nothing behind it and a null.                    *)
Remark(line) == Stripped(line) = <<>> \/ Stripped(line)[1] = Hash

Broken(fmt, text) ==
  \E f \in Given(text) :
    \/ \E i \in Cuts(text[f]) : ~Remark(FirstLine(SubSeq(text[f], i + 1, Len(text[f]))))
    \/ fmt = "yaml" /\ Line(text[f]) \in {<<>>, <<Tilde>>}

Parsed(fmt, text) == [f \in Fields |-> IF text[f] = None THEN None ELSE ParsedLine(fmt, text[f])]

(* The values a codec gives back: of those between quotes the ones without *)
(* a character that is not undone or cuts the line; of the others the ones *)
(* that do not cut it, and in YAML have no quotes of their own.            *)
Spoilt(fmt) == IF fmt = "env" THEN {Ff, Nul} ELSE {Cr, Tab, Nb, Ff, Nul, Uni}

Survives(fmt, v) ==
  IF NeedsQuotes(fmt, v) THEN ~Occur(Spoilt(fmt), v)
  ELSE ~Occur({Ff}, v) /\ (fmt = "env" \/ ~Quoted(v))

-----------------------------------------------------------------------------
NoSecret == [made |-> 0, values |-> NoValues]

NoOp == [st |-> "idle", kind |-> "none", n |-> 0, left |-> 0, values |-> NoValues,
         bad |-> FALSE, merge |-> FALSE, keys |-> Fields, fmt |-> "env", text |-> NoValues, base |-> NoValues]

(* There is no secret yet, or somebody else has made one.                  *)
Earlier == MaxOps + 1

Init ==
  /\ secret \in {NoSecret} \cup [made : {Earlier}, values : Maps]
  /\ op = [p \in Programs |-> NoOp]
  /\ wire = {} /\ calls = 0 /\ writers = {} /\ touched = {}

Idle(p) == op[p].st \in {"idle", "done", "failed"}
At(p, st) == op[p].st = st

Begin(p, o) ==
  /\ Idle(p) /\ calls < MaxOps
  /\ calls' = calls + 1
  /\ op' = [op EXCEPT ![p] = [o EXCEPT !.n = calls + 1, !.left = MaxRetries]]
  /\ UNCHANGED <<secret, wire, writers, touched>>

(* create(name), create(name, values) or create(name, document); bad: the  *)
(* payload or the document is one _resolve_put_payload refuses.            *)
BeginCreate(p, values, bad) ==
  Begin(p, [NoOp EXCEPT !.st = "post", !.kind = "create", !.values = values, !.bad = bad])

(* put_value(name, values, merge)                                          *)
BeginPut(p, values, merge) ==
  /\ values # NoValues
  /\ Begin(p, [NoOp EXCEPT !.st = "put", !.kind = "put", !.values = values, !.merge = merge])

(* get_value(name, *keys, format) and then put_value(name, document, ...)  *)
BeginEdit(p, keys, fmt, merge) ==
  Begin(p, [NoOp EXCEPT !.st = "get", !.kind = "edit", !.keys = keys, !.fmt = fmt, !.merge = merge])

-----------------------------------------------------------------------------
(* The service: it makes a secret that is not there, and stores values in  *)
(* one that is.                                                            *)
Request(p) == [act |-> op[p].st, kind |-> op[p].kind, n |-> op[p].n, values |-> op[p].values,
               merge |-> op[p].merge]

Conflict(r) == r.act = "post" /\ secret.made # 0
Missing(r) == r.act = "put" /\ secret.made = 0

Overlaid(old, new) == [f \in Fields |-> IF new[f] = None THEN old[f] ELSE new[f]]

Perform(r) ==
  IF Conflict(r) \/ Missing(r) THEN UNCHANGED <<secret, writers, touched>>
  ELSE /\ secret' = IF r.act = "post" THEN [secret EXCEPT !.made = r.n]
                    ELSE [secret EXCEPT !.values =
                            IF r.merge THEN Overlaid(@, r.values) ELSE r.values]
       /\ writers' = IF r.act = "put" /\ r.kind = "create" THEN writers \cup {r.n} ELSE writers
       /\ touched' = touched \cup {p \in Programs : op[p].n # r.n}

(* Mutated form: a conflict is as good as a new secret.                    *)
AcceptedAnyway(r) == ~Missing(r)

Accepted(r) == ~Conflict(r) /\ ~Missing(r)

(* After the POST: no values, values that cannot be stored, or the PUT.    *)
AfterPost(o) ==
  IF o.bad THEN [o EXCEPT !.st = "failed"]
  ELSE IF o.values = NoValues THEN [o EXCEPT !.st = "done"]
  ELSE [o EXCEPT !.st = "put", !.left = MaxRetries]

Answered(p) ==
  /\ At(p, "post") \/ At(p, "put")
  /\ Perform(Request(p))
  /\ op' = [op EXCEPT ![p] =
       IF ~Accepted(Request(p)) THEN [@ EXCEPT !.st = "failed"]
       ELSE IF At(p, "post") THEN AfterPost(@)
       ELSE [@ EXCEPT !.st = "done"]]
  /\ UNCHANGED <<wire, calls>>

(* Mutated form: an attempt too many.                                      *)
RepeatedOnceMore(o) == IF o.left + 1 > 0 THEN [o EXCEPT !.left = @ - 1] ELSE [o EXCEPT !.st = "failed"]

Repeated(o) == IF o.left > 0 THEN [o EXCEPT !.left = @ - 1] ELSE [o EXCEPT !.st = "failed"]

(* No answer: the request was executed, was lost, or is held up.           *)
Unanswered(p) ==
  /\ At(p, "post") \/ At(p, "put")
  /\ op' = [op EXCEPT ![p] = Repeated(@)]
  /\ \/ Perform(Request(p)) /\ UNCHANGED wire
     \/ UNCHANGED <<secret, writers, touched, wire>>
     \/ /\ Cardinality(wire) < MaxLate
        /\ wire' = wire \cup {Request(p)}
        /\ UNCHANGED <<secret, writers, touched>>
  /\ UNCHANGED calls

Late(r) ==
  /\ r \in wire
  /\ wire' = wire \ {r}
  /\ Perform(r)
  /\ UNCHANGED <<op, calls>>

(* get_value, filtered by keys, as a document.                             *)
Get(p) ==
  /\ At(p, "get") /\ secret.made # 0
  /\ LET read == [f \in Fields |-> IF f \in op[p].keys THEN secret.values[f] ELSE None]
     IN  op' = [op EXCEPT ![p] = [@ EXCEPT !.st = "edit", !.base = secret.values,
                                           !.text = Serialized(op[p].fmt, read)]]
  /\ touched' = touched \ {p}
  /\ UNCHANGED <<secret, wire, calls, writers>>

GetFails(p) ==
  /\ At(p, "get")
  /\ op' = [op EXCEPT ![p].st = "failed"]
  /\ UNCHANGED <<secret, wire, calls, writers, touched>>

(* put_value(name, document): parsed, and refused when it has no values.   *)
PutBack(p) ==
  /\ At(p, "edit")
  /\ op' = [op EXCEPT ![p] =
       IF Broken(@.fmt, @.text) \/ Given(@.text) = {} THEN [@ EXCEPT !.st = "failed"]
       ELSE [@ EXCEPT !.st = "put", !.values = Parsed(op[p].fmt, op[p].text), !.left = MaxRetries]]
  /\ UNCHANGED <<secret, wire, calls, writers, touched>>

Finished == (\A p \in Programs : Idle(p)) /\ calls = MaxOps /\ UNCHANGED vars

Next ==
  \/ \E p \in Programs :
       \/ \E values \in Maps, bad \in BOOLEAN : BeginCreate(p, values, bad)
       \/ \E values \in Maps, merge \in BOOLEAN : BeginPut(p, values, merge)
       \/ \E keys \in SUBSET Fields \ {{}}, fmt \in {"env", "yaml"}, merge \in BOOLEAN :
            BeginEdit(p, keys, fmt, merge)
       \/ Answered(p) \/ Unanswered(p) \/ Get(p) \/ GetFails(p) \/ PutBack(p)
  \/ \E r \in wire : Late(r)
  \/ Finished

Spec == Init /\ [][Next]_vars

-----------------------------------------------------------------------------
TypeOK ==
  /\ secret.made \in (0..calls) \cup {Earlier}
  /\ DOMAIN secret.values = Fields
  /\ secret.made = 0 => secret.values = NoValues
  /\ \A p \in Programs : op[p].left \in 0..MaxRetries /\ op[p].n \in 0..calls
  /\ \A r \in wire : r.act \in {"post", "put"} /\ r.n \in 1..calls

(* A create puts its values into the secret that it made itself, and into  *)
(* no other one, however its two requests and their repetitions mix with   *)
(* those of other programs (services.py, SecretsAPI.create).               *)
CreateOwns == \A n \in writers : secret.made = n

(* A document can be parsed by the codec that wrote it, and put back it    *)
(* leaves the secret as it was, if nobody else changed it meanwhile and    *)
(* the document had every key or was merged; and if its values are ones    *)
(* the codec gives back (Survives), which not all are: env loses form      *)
(* feeds and what cuts lines like them, and a NUL next to a blank; YAML    *)
(* those, tabs, returns and accents where it needs quotes, and quotes      *)
(* around a value (secret_formats.py, get_value, put_value).               *)
ReadBack ==
  \A p \in Programs :
    (\A f \in op[p].keys \cap Given(op[p].base) : Survives(op[p].fmt, op[p].base[f])) =>
      /\ At(p, "edit") =>
           /\ ~Broken(op[p].fmt, op[p].text)
           /\ \A f \in op[p].keys : Parsed(op[p].fmt, op[p].text)[f] = op[p].base[f]
      /\ (/\ op[p].kind = "edit" /\ At(p, "done") /\ p \notin touched
          /\ op[p].keys = Fields \/ op[p].merge)
         => secret.values = op[p].base
=============================================================================
