--------------------------- MODULE MCMailTransfer ---------------------------
EXTENDS TransferProperties

CONSTANTS MailLength

\* Every mail up to MailLength bytes.
ShortMails == UNION {[1..n -> Char] : n \in 0..MailLength}

\* Mails whose bytes at the seams matter: dots at the start and after CR LF, a
\* mail that looks like the end of an answer, an unfinished line.
SeamMails ==
  {<<>>, <<"DOT">>, <<"CR">>, <<"DOT", "CR", "LF">>,
   <<"TEXT", "CR", "LF", "DOT", "DOT", "CR", "LF", "DOT", "CR", "LF">>,
   <<"TEXT", "LF", "DOT", "LF", "CR", "DOT", "CR", "CR", "LF", "DOT">>}

ShortAndSeamMails == ShortMails \cup SeamMails
=============================================================================
