\* Three cells: a repeated value, a second value of the same label, a value
\* under two labels, and a typed placeholder all fit; one-token answers are
\* enough, since RestoreText works token by token.
SPECIFICATION Spec
CONSTANTS
  Labels = {email, secret}
  NoLabel = NoLabel
  Texts = {a, b}
  MaxCells = 3
  MaxReply = 1
  Bodies <- MCBodies
  Replies <- MCReplies
INVARIANTS
  PlaceholderIdentity
  RedactsExactly
  RoundTrip
  RestoresMeaning
