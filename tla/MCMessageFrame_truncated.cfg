\* Reproduction: get_frame_message_data on a buffer cut short inside a
\* struct reads the whole struct past buffer_size.
CONSTANTS
  BufSize = 512
  AddTwice = FALSE
  MaxAdds = 1
SPECIFICATION Spec
INVARIANT ParseInBounds
