--------------------------- MODULE MCFolderSync -----------------------------
EXTENDS CoverageGate

CONSTANTS a, b

\* An empty folder, one a short page ends, one the page budget cuts short.  a is
\* archived between the listing of the inbox and that of the archive.
ThreeFolders == <<"INBOX", "SPAM_BLOCKED", "ARCHIVE">>
OneByOne == [f \in Folder |-> CASE f = "INBOX" -> <<a>>
                               [] f = "SPAM_BLOCKED" -> <<>>
                               [] f = "ARCHIVE" -> <<b, a>>]
=============================================================================
