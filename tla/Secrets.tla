------------------------------ MODULE Secrets ------------------------------
(***************************************************************************)
(* The secret classifier of internal/detect/secrets.go.  A message is a    *)
(* set of tokens, and a token is what the regular expressions and the      *)
(* placeholder tests see of a word:                                        *)
(*   form    which pattern the word has ("plain" when it has none);        *)
(*   keyed   it is the value of a key such as password= or token=;         *)
(*   mark    what shows it is not live: "EXAMPLE" in capitals, another mark  *)
(*           of looksPlaceholder, or a reserved SSN or card number;          *)
(*   mixed   eight characters or more, of two classes or more;             *)
(*   shown   it is there as it was, not cut short by redact.               *)
(***************************************************************************)
EXTENDS FiniteSets

Forms == {"aws", "stripe_live", "stripe_test", "uri", "private_key", "ssn", "card", "plain"}

Marks == {"none", "EXAMPLE", "placeholder", "reserved"}

Token == [form : Forms, keyed : BOOLEAN, mark : Marks, mixed : BOOLEAN, shown : BOOLEAN]

\* A mutant of LooksLive: placeholders are not told apart.
LooksSecret(k) == k.shown /\ k.mixed

Placeholder(k) == k.mark \in {"EXAMPLE", "placeholder"}

\* looksLiveSecret.  What redact returns holds "**", a placeholder mark, or is
\* shorter than eight characters.
LooksLive(k) == k.shown /\ k.mixed /\ ~Placeholder(k)

\* The rules that look at the word itself, ...
ByForm(k) ==
  CASE k.form = "aws"         /\ k.shown /\ k.mark # "EXAMPLE"  -> {"aws_key"}
    [] k.form = "stripe_live" /\ k.shown /\ ~Placeholder(k)      -> {"api_secret"}
    [] k.form = "uri"         /\ LooksLive(k)                    -> {"db_password"}
    [] k.form = "private_key"                                    -> {"private_key"}
    [] k.form \in {"ssn", "card"} /\ k.shown /\ k.mark # "reserved" -> {k.form}
    [] OTHER                                                     -> {}

\* ... and the one that looks at its key, which leaves alone what the others
\* have classified or refused.
ByKey(k) ==
  IF k.keyed /\ LooksLive(k) /\ k.form \notin {"aws", "stripe_live", "stripe_test", "uri"}
  THEN {"api_secret"} ELSE {}

ClassifyMessage(m) == UNION {ByForm(k) \cup ByKey(k) : k \in m}

\* A mutant of Masked: only the words with a pattern of their own.
MaskedByForm(k) ==
  (k.form \in {"aws", "stripe_live"} /\ k.mark # "EXAMPLE") \/ k.form = "uri"

\* What RedactMessage masks: the keys of both vendors unless EXAMPLE is a part of
\* them, every database password, and then what a key gives away.
Masked(k) ==
  \/ k.form \in {"aws", "stripe_live"} /\ k.mark # "EXAMPLE"
  \/ k.form = "uri"
  \/ k.keyed /\ LooksLive(k)

RedactMessage(m) == {IF Masked(k) THEN [k EXCEPT !.shown = FALSE] ELSE k : k \in m}

=============================================================================
