----------------------------- MODULE MCMailings -----------------------------
\* The instance of Mailings that mailings.cfg checks.
EXTENDS Mailings

\* Senders meet only in the recipients and the mail server; the job of the
\* reports also in last_sent_at with a request that sends one.
EachAlone == {{"rules"}, {"ssl"}, {"monitor"}, {"report", "api"}}
=============================================================================
