\* Reproduction: adding the same struct twice counts its size twice, so the
\* header's message_size is larger than the frame.
CONSTANTS
  BufSize = 512
  AddTwice = TRUE
  MaxAdds = 2
SPECIFICATION Spec
INVARIANT FinishedLayout
